---- MODULE Spec2Model ----
(***************************************************************************)
(* A model of the inno crate (src/core): the top-level parser Inno::new    *)
(* with the framed block reader, the stream descriptor, the decoder layer  *)
(* and the end-of-stream checks (specification Spec), and the flag-bit     *)
(* reader with the gate lists of every flag set (specification SpecFlags). *)
(*                                                                         *)
(* Bytes of the installer are not represented one by one.  A file is a     *)
(* layout: the offsets at which the producer wrote the stream descriptors  *)
(* and the CRC-prefixed frames, and which of them are damaged.  A CRC-32   *)
(* value is represented by the byte range it was computed over, so two     *)
(* checksums are equal exactly when they cover the same bytes (CRC         *)
(* collisions are left out).                                               *)
(***************************************************************************)
EXTENDS Integers, Sequences, FiniteSets, TLC

(***************************************************************************)
(* Bounds of the model.                                                    *)
(***************************************************************************)
\* largest on-disk entry count of one category
MaxCount == 2
\* decoded bytes one record parser consumes (header tail, entry, wizard, location)
RecLen == 1500
\* grain of the surplus / deficit of content and of the declared size
Slack == 3

(***************************************************************************)
(* Program constants.                                                      *)
(***************************************************************************)
INNO_BLOCK_SIZE == 4096
\* capacity of the buffer flate2 (zlib) and liblzma put between decoder and framer
ZlibBufSize == 32768
LzmaBufSize == 8192
\* zlib wraps the deflate data in a 2-byte header and a 4-byte Adler-32 trailer
ZlibHeadLen == 2
ZlibTrailerLen == 4
\* LZMA1 properties block read by LzmaStreamHeader
LzmaPropsLen == 5

\* Body applied to a value that is computed once
With(value, Body(_)) == CHOOSE y \in {Body(x) : x \in {value}} : TRUE

Min(a, b) == IF a < b THEN a ELSE b
Max(a, b) == IF a > b THEN a ELSE b
DivCeil(a, b) == (a + b - 1) \div b

(***************************************************************************)
(* InnoVersion: (major, minor, patch, revision) and the variant flags.     *)
(***************************************************************************)
VLt(a, b) ==
    \/ a[1] < b[1]
    \/ a[1] = b[1] /\ a[2] < b[2]
    \/ a[1] = b[1] /\ a[2] = b[2] /\ a[3] < b[3]
    \/ a[1] = b[1] /\ a[2] = b[2] /\ a[3] = b[3] /\ a[4] < b[4]

\* Ord for InnoVersion: the variant takes no part
Lt(v, t) == VLt(v.t, t)
Ge(v, t) == ~VLt(v.t, t)
Gt(v, t) == VLt(t, v.t)
In(v, lo, hi) == Ge(v, lo) /\ Lt(v, hi)

\* InnoVersion::new
New(major, minor, patch, revision) ==
    [t |-> <<major, minor, patch, revision>>,
     unicode |-> (major >= 6 /\ minor >= 3),
     isx |-> FALSE,
     bits16 |-> FALSE]

\* InnoVersion::from_raw_version on a tokenised version string:
\* paren  - the string holds "(" ... ")"
\* parts  - the numeric components between the parentheses
\* u, isx - the remainder holds "(u)" / "ISX" or "Inno Setup Extensions"
from_raw_version(raw) ==
    IF ~raw.paren \/ Len(raw.parts) < 3
    THEN [some |-> FALSE, v |-> New(0, 0, 0, 0)]
    ELSE LET iv == New(raw.parts[1], raw.parts[2], raw.parts[3],
                       IF Len(raw.parts) >= 4 THEN raw.parts[4] ELSE 0)
         IN IF Ge(iv, <<6, 3, 0, 0>>)
            THEN [some |-> TRUE, v |-> iv]
            ELSE [some |-> TRUE,
                  v |-> [iv EXCEPT !.unicode = raw.u, !.isx = raw.isx]]

\* Inno::MAX_SUPPORTED_VERSION (lib.rs) and the constant the error text uses (error.rs)
MAX_SUPPORTED_VERSION == <<6, 6, 255, 255>>
ERROR_MAX_SUPPORTED_VERSION == <<6, 4, 255, 255>>

(***************************************************************************)
(* The installer file, from the primary stream descriptor on.              *)
(*   inp.s[k].frames   frames the producer wrote for stream k: payload     *)
(*                     length and whether the CRC prefix is intact         *)
(*   inp.s[k].declDelta  declared size minus the size actually written     *)
(*   inp.s[k].descOk   the descriptor's own CRC is intact                  *)
(*   inp.s[k].dlen     length of the decoded content                       *)
(*   inp.cut           bytes missing at the end of the file                *)
(***************************************************************************)
RECURSIVE SumFrames(_)
SumFrames(frames) ==
    IF frames = <<>> THEN 0
    ELSE 4 + Head(frames).len + SumFrames(Tail(frames))

RECURSIVE SumPayload(_)
SumPayload(frames) ==
    IF frames = <<>> THEN 0
    ELSE Head(frames).len + SumPayload(Tail(frames))

\* length of a stream descriptor: {crc, size, flag} or {crc, compressed, uncompressed}
DescLen(v) == IF Ge(v, <<4, 0, 9, 0>>) THEN 9 ELSE 12

DescStart(f, v, k) ==
    IF k = 1 THEN 0 ELSE DescLen(v) + SumFrames(f.s[1].frames)

FramesStart(f, v, k) == DescStart(f, v, k) + DescLen(v)

FileLen(f, v) ==
    Max(0, FramesStart(f, v, 2) + SumFrames(f.s[2].frames) - f.cut)

\* offset of the CRC prefix of frame i of stream k
FrameStart(f, v, k, i) ==
    FramesStart(f, v, k) + SumFrames(SubSeq(f.s[k].frames, 1, i - 1))

\* the frames of the file: where each starts, its payload length, its state
FrameTable(f, v) ==
    UNION {{[start |-> FrameStart(f, v, k, i),
             len |-> f.s[k].frames[i].len,
             good |-> f.s[k].frames[i].good] : i \in 1..Len(f.s[k].frames)} :
           k \in 1..2}

(***************************************************************************)
(* Errors.  kind is the InnoError variant the value is; io is the          *)
(* io::ErrorKind when the value is (or wraps) an io::Error; inner is the   *)
(* InnoError variant carried as the payload of an io::Error; loc, actual   *)
(* and expected are the fields of a CrcChecksumMismatch.                   *)
(***************************************************************************)
NoErr == [kind |-> "None", io |-> "-", inner |-> "-", loc |-> "-",
          actual |-> <<>>, expected |-> <<>>, version |-> <<>>, max |-> <<>>]

\* InnoError::Io(e) for an io::Error e of ErrorKind k
IoErr(k) == [NoErr EXCEPT !.kind = "Io", !.io = k]

\* io::Error::new(ErrorKind::InvalidData, InnoError::CrcChecksumMismatch {..})
IoCrcErr(location, act, exp) ==
    [NoErr EXCEPT !.kind = "Io", !.io = "InvalidData",
                  !.inner = "CrcChecksumMismatch",
                  !.loc = location, !.actual = act, !.expected = exp]

\* InnoError::CrcChecksumMismatch {..} returned as such
CrcErr(location, act, exp) ==
    [NoErr EXCEPT !.kind = "CrcChecksumMismatch",
                  !.loc = location, !.actual = act, !.expected = exp]

\* InnoError::UnsupportedVersion(v); max is the version its message names
UnsupportedVersion(v) ==
    [NoErr EXCEPT !.kind = "UnsupportedVersion", !.version = v.t,
                  !.max = ERROR_MAX_SUPPORTED_VERSION]

PlainErr(k) == [NoErr EXCEPT !.kind = k]

\* a panic of the process (arithmetic overflow check, slice index out of range)
Panic == PlainErr("Panic")

(***************************************************************************)
(* CRC-32 of the n bytes at offset p, and the CRC prefix stored at offset  *)
(* p.  A prefix the producer wrote for a frame is the checksum of that     *)
(* frame's payload; a damaged prefix, or four bytes that are no prefix at  *)
(* all, equal the checksum of no byte range.                               *)
(***************************************************************************)
Crc32(p, n) == <<p, n>>

StoredCrc(f, p) ==
    LET here == {fr \in f.table : fr.start = p}
    IN IF here = {} THEN <<p, -2>>
       ELSE LET fr == CHOOSE x \in here : TRUE
            IN IF fr.good THEN Crc32(p + 4, fr.len) ELSE <<p, -1>>

(***************************************************************************)
(* InnoBlockReader over Take<R>.  The reader state st holds                *)
(*   fpos      position of the caller's reader R                           *)
(*   limit     bytes the Take wrapper still lets through                   *)
(*   pos, length, total_in, total_out   the fields of InnoBlockReader      *)
(*   frames    the (expected, actual) checksums of the frames accepted     *)
(*   trunc     the kind of truncated frame read_block met: "prefix" when   *)
(*             the source ended inside the CRC prefix, "payload" when it   *)
(*             ended inside the payload; truncRes is what the call gave    *)
(*   badCrc    read_block met a payload whose CRC-32 is not the prefix     *)
(*   descAt    position at which the last stream descriptor was read       *)
(***************************************************************************)
Ret(state, isOk, count, error) ==
    [st |-> state, ok |-> isOk, n |-> count, e |-> error]

\* bytes a read of the Take wrapper can still deliver
TakeAvail(f, st) == Min(st.limit, Max(0, f.len - st.fpos))

\* the frame the producer wrote at offset p, as a set of at most one element
FrameAt(f, p) == {fr \in f.table : fr.start = p}

\* InnoBlockReader::read_block; n = 1 stands for Ok(true), n = 0 for Ok(false).
\* trunc / truncRes / badCrc record what the call met and are read by no code.
read_block(f, st) ==
    LET avail == TakeAvail(f, st)
    IN IF avail < 4
       THEN \* read_exact consumes what is left and fails with UnexpectedEof
            Ret([st EXCEPT !.fpos = @ + avail, !.limit = @ - avail,
                           !.trunc = IF avail > 0 THEN "prefix" ELSE @,
                           !.truncRes = IF avail > 0 THEN "Ok(false)" ELSE @],
                TRUE, 0, NoErr)
       ELSE LET p == st.fpos
                n == Min(INNO_BLOCK_SIZE, avail - 4)
                partial == n > 0 /\ \E fr \in FrameAt(f, p) : n < fr.len
                actual == Crc32(p + 4, n)
                expected == StoredCrc(f, p)
                s1 == [st EXCEPT !.fpos = @ + 4 + n, !.limit = @ - (4 + n),
                                 !.total_in = @ + 4 + n, !.length = n]
            IN IF n = 0
               THEN Ret(s1, FALSE, 0, IoErr("UnexpectedEof"))
               ELSE IF actual # expected
               THEN Ret([s1 EXCEPT !.badCrc = TRUE,
                                   !.trunc = IF partial THEN "payload" ELSE @,
                                   !.truncRes = IF partial THEN "InvalidData" ELSE @],
                        FALSE, 0, IoCrcErr("Inno block", actual, expected))
               ELSE Ret([s1 EXCEPT !.pos = 0,
                                   !.frames = Append(@, <<expected, actual>>)],
                        TRUE, 1, NoErr)

\* the loop of <InnoBlockReader as Read>::read, with got bytes copied so far
RECURSIVE ReadLoop(_, _, _, _)
ReadLoop(f, st, want, got) ==
    IF got >= want
    THEN Ret([st EXCEPT !.total_out = @ + got], TRUE, got, NoErr)
    ELSE With(IF st.pos = st.length THEN read_block(f, st)
              ELSE Ret(st, TRUE, 1, NoErr),
         LAMBDA rb :
            IF ~rb.ok THEN Ret(rb.st, FALSE, got, rb.e)
            ELSE IF rb.n = 0 THEN Ret(rb.st, TRUE, got, NoErr)
            ELSE IF rb.st.pos > rb.st.length
            THEN \* length - pos wraps around unless overflow checks are on
                 IF f.overflowChecks \/ rb.st.pos + (want - got) > INNO_BLOCK_SIZE
                 THEN Ret(rb.st, FALSE, got, Panic)
                 ELSE ReadLoop(f, [rb.st EXCEPT !.pos = @ + (want - got)],
                               want, want)
            ELSE With(Min(want - got, rb.st.length - rb.st.pos),
                 LAMBDA to_copy :
                    ReadLoop(f, [rb.st EXCEPT !.pos = @ + to_copy],
                             want, got + to_copy)))

BlockRead(f, st, want) == ReadLoop(f, st, want, 0)

(***************************************************************************)
(* Decoder over the block reader.  Stored hands the payload through.  The  *)
(* zlib and LZMA1 decoders of flate2 and liblzma pull the framed bytes     *)
(* through a buffer of their own, a whole buffer at a time, and decode     *)
(* from it on demand: two decoded bytes for every byte of compressed data  *)
(* (the ratio is a choice of the model).                                   *)
(*   fed     compressed bytes pulled into the decoder's buffer             *)
(*   out     decoded bytes handed to the caller                            *)
(*   broken  the decoder was fed bytes that do not continue its stream     *)
(***************************************************************************)
CompHead(comp) == IF comp = "Zlib" THEN ZlibHeadLen ELSE 0
CompTrailer(comp) == IF comp = "Zlib" THEN ZlibTrailerLen ELSE 0
CompBuf(comp) == IF comp = "Zlib" THEN ZlibBufSize ELSE LzmaBufSize

\* length of the compressed form of dlen decoded bytes, without LZMA1 properties
CompLen(comp, dlen) == CompHead(comp) + DivCeil(dlen, 2) + CompTrailer(comp)

\* decoded bytes the decoder can produce from the bytes pulled so far
Decodable(f, st) ==
    Min(f.s[st.k].dlen, 2 * Max(0, st.fed - CompHead(st.comp)))

RECURSIVE DecLoop(_, _, _, _)
DecLoop(f, st, want, got) ==
    IF got >= want THEN Ret(st, TRUE, got, NoErr)
    ELSE IF st.broken THEN Ret(st, FALSE, got, IoErr("InvalidData"))
    ELSE IF Decodable(f, st) - st.out > 0
    THEN With(Min(want - got, Decodable(f, st) - st.out),
         LAMBDA take :
            DecLoop(f, [st EXCEPT !.out = @ + take], want, got + take))
    ELSE IF st.fed >= CompLen(st.comp, f.s[st.k].dlen)
    THEN \* end of the compressed stream: read returns what it has
         Ret(st, TRUE, got, NoErr)
    ELSE With(BlockRead(f, st, CompBuf(st.comp)),
         LAMBDA r :
            IF ~r.ok THEN Ret(r.st, FALSE, got, r.e)
            ELSE IF r.n = 0
            THEN Ret(r.st, FALSE, got, IoErr("UnexpectedEof"))
            ELSE DecLoop(f, [r.st EXCEPT !.fed = @ + r.n], want, got))

\* <Decoder as Read>::read
DecoderRead(f, st, want) ==
    IF st.comp = "Stored" THEN BlockRead(f, st, want)
    ELSE DecLoop(f, st, want, 0)

\* Read::read_exact on the stream reader: a short read is UnexpectedEof
ReadExact(f, st, want) ==
    With(DecoderRead(f, st, want),
    LAMBDA r :
       IF r.ok /\ r.n < want
       THEN Ret(r.st, FALSE, r.n, IoErr("UnexpectedEof"))
       ELSE r)

(***************************************************************************)
(* InnoStreamReader.                                                       *)
(***************************************************************************)
\* the descriptor the producer wrote at offset p, 0 if there is none
DescAt(f, p) == IF p = f.desc[1] THEN 1 ELSE IF p = f.desc[2] THEN 2 ELSE 0

\* a u32 as its two 16-bit halves <<high, low>>; 0 - 1 stands for all ones
U32(n) == IF n < 0 THEN <<65535, 65535>> ELSE <<n \div 65536, n % 65536>>

\* the number a u32 stands for, when it is small enough to be written
FromU32(s) == s[1] * 65536 + s[2]

\* u32::div_ceil(INNO_BLOCK_SIZE)
DivCeilBlock(s) ==
    s[1] * (65536 \div INNO_BLOCK_SIZE) + (s[2] \div INNO_BLOCK_SIZE)
    + (IF s[2] % INNO_BLOCK_SIZE # 0 THEN 1 ELSE 0)

\* s + a in halves, the high half not reduced
AddWide(s, a) ==
    <<s[1] + (a \div 65536) + ((s[2] + (a % 65536)) \div 65536),
      (s[2] + (a % 65536)) % 65536>>

\* *compression.size_mut() += compression.size().div_ceil(4096) * 4, in u32:
\* past u32::MAX the sum panics with overflow checks and wraps without
legacy_size(raw, overflowChecks) ==
    LET exact == AddWide(raw, DivCeilBlock(raw) * 4)
    IN IF exact[1] < 65536 THEN [panic |-> FALSE, size |-> exact]
       ELSE IF overflowChecks THEN [panic |-> TRUE, size |-> raw]
       ELSE [panic |-> FALSE, size |-> <<exact[1] % 65536, exact[2]>>]

\* the Compression read_header builds from the two fields after the CRC
compression_of(v, field1, field2, overflowChecks) ==
    IF Ge(v, <<4, 0, 9, 0>>)
    THEN [panic |-> FALSE, size |-> field1,
          comp |-> IF field2 # <<0, 0>>
                   THEN IF Ge(v, <<4, 1, 6, 0>>) THEN "LZMA1" ELSE "Zlib"
                   ELSE "Stored"]
    ELSE LET compressed_size == field1
             uncompressed_size == field2
             \* compressed_size.cast_signed() == -1
             stored == compressed_size = <<65535, 65535>>
             r == legacy_size(IF stored THEN uncompressed_size
                              ELSE compressed_size, overflowChecks)
         IN [panic |-> r.panic, size |-> r.size,
             comp |-> IF stored THEN "Stored" ELSE "Zlib"]

\* InnoStreamReader::read_header: the Compression, with its size, or an error
read_header(f, st, v) ==
    LET k == DescAt(f, st.fpos)
        s1 == [st EXCEPT !.fpos = Min(f.len, @ + DescLen(v)), !.descAt = st.fpos]
    IN IF f.len - st.fpos < DescLen(v)
       THEN Ret(s1, FALSE, 0, IoErr("UnexpectedEof"))
       ELSE IF k = 0
       THEN Ret(s1, FALSE, 0,
                IoCrcErr("Inno stream header", Crc32(st.fpos + 4, DescLen(v) - 4),
                         <<st.fpos, -2>>))
       ELSE IF ~f.s[k].descOk
       THEN Ret(s1, FALSE, 0,
                IoCrcErr("Inno stream header", Crc32(st.fpos + 4, DescLen(v) - 4),
                         <<st.fpos, -1>>))
       ELSE With(compression_of(v, U32(f.s[k].field1), U32(f.s[k].field2),
                                f.overflowChecks),
            LAMBDA c :
               IF c.panic THEN Ret(s1, FALSE, 0, Panic)
               ELSE Ret([s1 EXCEPT !.k = k, !.comp = c.comp,
                                   !.size = FromU32(c.size)],
                        TRUE, 0, NoErr))

\* InnoStreamReader::new: read the descriptor, wrap the reader, build the decoder
StreamNew(f, st, v) ==
    With(read_header(f, st, v),
    LAMBDA h :
       IF ~h.ok THEN h
       ELSE With([h.st EXCEPT !.limit = h.st.size, !.pos = 0, !.length = 0,
                              !.total_in = 0, !.total_out = 0,
                              !.fed = 0, !.out = 0, !.broken = FALSE],
            LAMBDA s1 :
               IF s1.comp = "LZMA1"
               THEN With(BlockRead(f, s1, LzmaPropsLen),
                    LAMBDA r :
                       IF r.ok /\ r.n < LzmaPropsLen
                       THEN Ret(r.st, FALSE, 0, IoErr("UnexpectedEof"))
                       ELSE r)
               ELSE Ret(s1, TRUE, 0, NoErr)))

\* a variant that also passes while declared bytes are still unread
is_end_of_stream_AtMost(st) == st.total_in <= st.size

\* InnoStreamReader::is_end_of_stream
is_end_of_stream(st) == st.total_in = st.size

\* InnoStreamReader::reset: unwrap down to R and open the next stream on it
reset(f, st, v) == StreamNew(f, st, v)

\* the reader before any stream is opened, positioned at the first descriptor
InitReader ==
    [fpos |-> 0, limit |-> 0, pos |-> 0, length |-> 0, total_in |-> 0,
     total_out |-> 0, frames |-> <<>>, k |-> 0, comp |-> "Stored", size |-> 0,
     fed |-> 0, out |-> 0, broken |-> FALSE,
     trunc |-> "none", truncRes |-> "-", badCrc |-> FALSE, descAt |-> 0 - 1]

(***************************************************************************)
(* Setup loader.  A loader table is described by its signature and the one *)
(* byte changed in it: a byte of the signature, of the header offset (a    *)
(* CRC-covered field), or of the trailing CRC.                             *)
(***************************************************************************)
\* SetupLoaderSignature::KNOWN; the signatures of KNOWN_LEGACY are in no lookup
KnownSignatures ==
    [S02 |-> <<1, 2, 10, 0>>, S04 |-> <<4, 0, 0, 0>>, S05 |-> <<4, 0, 3, 0>>,
     S06 |-> <<4, 0, 10, 0>>, S07 |-> <<4, 1, 6, 0>>,
     S515a |-> <<5, 1, 5, 0>>, S515b |-> <<5, 1, 5, 0>>]

\* SetupLoaderSignature::version
SignatureVersion(sig) ==
    IF sig \in DOMAIN KnownSignatures
    THEN [some |-> TRUE, v |-> New(KnownSignatures[sig][1], KnownSignatures[sig][2],
                                   KnownSignatures[sig][3], KnownSignatures[sig][4])]
    ELSE [some |-> FALSE, v |-> New(0, 0, 0, 0)]

\* SetupLoader::new on a table: NoErr, or the error it returns
SetupLoaderNew(tbl) ==
    LET sv == SignatureVersion(IF tbl.damage = "signature" THEN "changed" ELSE tbl.sig)
    IN IF ~sv.some THEN PlainErr("UnknownLoaderSignature")
       ELSE IF Ge(sv.v, <<4, 0, 10, 0>>) /\ tbl.damage \in {"header_offset", "crc"}
       THEN CrcErr("Setup Loader",
                   IF tbl.damage = "header_offset" THEN <<0, -1>> ELSE Crc32(0, 1),
                   IF tbl.damage = "crc" THEN <<0, -1>> ELSE Crc32(0, 1))
       ELSE NoErr

\* SetupLoader::read_legacy: the offset table at 0x30, then the loader table
read_legacy(l) ==
    IF l.strategy # "legacy" THEN IoErr("InvalidData")
    ELSE SetupLoaderNew(l.table)

\* SetupLoader::read_from_resource: the PE resource 11111, then the loader table
read_from_resource(l) ==
    IF l.strategy # "resource" THEN IoErr("InvalidData")
    ELSE SetupLoaderNew(l.table)

\* SetupLoader::read_from: the legacy method, falling back to the PE resource
read_from(l) ==
    IF read_legacy(l) = NoErr THEN NoErr ELSE read_from_resource(l)

(***************************************************************************)
(* Entry counts.                                                           *)
(***************************************************************************)
Cats ==
    <<"language", "custom_message", "permission", "type", "component", "task",
      "directory", "is_sig_key", "file", "file_location", "icon", "ini",
      "registry", "install_delete", "uninstall_delete", "run", "uninstall_run">>

CatSet == {Cats[i] : i \in 1..Len(Cats)}

\* EntryCounts::read: raw holds the on-disk value of every count field
EntryCountsRead(v, raw) ==
    [c \in CatSet |->
        CASE c = "language" ->
                IF Ge(v, <<4, 0, 0, 0>>) THEN raw[c]
                ELSE IF Ge(v, <<2, 0, 1, 0>>) THEN 1 ELSE 0
          [] c = "custom_message" -> IF Ge(v, <<4, 2, 1, 0>>) THEN raw[c] ELSE 0
          [] c = "permission" -> IF Ge(v, <<4, 1, 0, 0>>) THEN raw[c] ELSE 0
          [] c \in {"type", "component"} ->
                IF Ge(v, <<2, 0, 0, 0>>) \/ v.isx THEN raw[c] ELSE 0
          [] c = "task" ->
                IF Ge(v, <<2, 0, 0, 0>>) \/ (v.isx /\ Ge(v, <<1, 3, 17, 0>>))
                THEN raw[c] ELSE 0
          [] c = "is_sig_key" -> IF Ge(v, <<6, 5, 0, 0>>) THEN raw[c] ELSE 0
          [] OTHER -> raw[c]]

\* a variant that reads the icons before the files
EntryOrder_IconsFirst ==
    <<"custom_message", "permission", "type", "component", "task", "directory",
      "is_sig_key", "icon", "file", "ini", "registry", "install_delete",
      "uninstall_delete", "run", "uninstall_run">>

\* the order in which Inno::new reads the entry categories after the languages
EntryOrder ==
    <<"custom_message", "permission", "type", "component", "task", "directory",
      "is_sig_key", "file", "icon", "ini", "registry", "install_delete",
      "uninstall_delete", "run", "uninstall_run">>

\* the header holds the one-byte restart AutoBool only in 3.0.0 .. 3.0.2
HasRestartAutoBool(v) == In(v, <<3, 0, 0, 0>>, <<3, 0, 3, 0>>)

\* a variant that keeps the records read so far when the stream ends early
ReadRecords_Lenient(f, st, count) ==
    With(ReadExact(f, st, RecLen * count),
    LAMBDA r :
       IF r.ok THEN [r EXCEPT !.n = count]
       ELSE IF r.e.io = "UnexpectedEof" THEN Ret(r.st, TRUE, r.n \div RecLen, NoErr)
       ELSE r)

\* count record parsers in a row, each consuming RecLen decoded bytes
RECURSIVE ReadRecords(_, _, _)
ReadRecords(f, st, count) ==
    IF count = 0 THEN Ret(st, TRUE, 0, NoErr)
    ELSE With(ReadExact(f, st, RecLen),
         LAMBDA r :
            IF ~r.ok THEN r
            ELSE With(ReadRecords(f, r.st, count - 1),
                 LAMBDA rest : [rest EXCEPT !.n = @ + 1]))

\* Header::read: the fields before the restart AutoBool, the AutoBool, whose
\* read error is dropped, and the fields after it
HeaderRead(f, st, v) ==
    With(ReadExact(f, st, f.h1),
    LAMBDA a :
       IF ~a.ok THEN a
       ELSE With(IF HasRestartAutoBool(v) THEN ReadExact(f, a.st, 1)
                 ELSE Ret(a.st, TRUE, 0, NoErr),
            LAMBDA b :
               IF b.e = Panic THEN b
               ELSE ReadExact(f,
                              IF b.ok \/ b.st.comp = "Stored" THEN b.st
                              ELSE [b.st EXCEPT !.broken =
                                        (b.e.inner = "CrcChecksumMismatch")],
                              RecLen)))

(***************************************************************************)
(* Decoded bytes the records of a stream take up.                          *)
(***************************************************************************)
RECURSIVE SumCounts(_, _)
SumCounts(counts, cats) ==
    IF cats = <<>> THEN 0
    ELSE counts[Head(cats)] + SumCounts(counts, Tail(cats))

Need(v, counts, h1, k) ==
    IF k = 1
    THEN h1 + (IF HasRestartAutoBool(v) THEN 1 ELSE 0) + RecLen
         + RecLen * (counts["language"] + SumCounts(counts, EntryOrder) + 1)
    ELSE RecLen * counts["file_location"]

(***************************************************************************)
(* Installer files the parser is run on: a well-formed installer of some   *)
(* version, damaged in at most one way.                                    *)
(***************************************************************************)
\* marks the last frame of a stream, whatever its index
LastFrame == 0 - 1

\* the 64-byte version strings: eight releases and one string without "("
RawVersions ==
    {[paren |-> TRUE, parts |-> <<1, 3, 21>>, u |-> FALSE, isx |-> TRUE],
     [paren |-> TRUE, parts |-> <<3, 0, 2>>, u |-> FALSE, isx |-> FALSE],
     [paren |-> TRUE, parts |-> <<4, 0, 5>>, u |-> FALSE, isx |-> FALSE],
     [paren |-> TRUE, parts |-> <<4, 1, 5>>, u |-> FALSE, isx |-> FALSE],
     [paren |-> TRUE, parts |-> <<5, 5, 7>>, u |-> TRUE, isx |-> FALSE],
     [paren |-> TRUE, parts |-> <<6, 5, 2>>, u |-> FALSE, isx |-> FALSE],
     [paren |-> TRUE, parts |-> <<6, 6, 1>>, u |-> FALSE, isx |-> FALSE],
     [paren |-> TRUE, parts |-> <<6, 7, 0>>, u |-> FALSE, isx |-> FALSE],
     [paren |-> FALSE, parts |-> <<>>, u |-> FALSE, isx |-> FALSE]}

CatIndex(c) == CHOOSE i \in 1..Len(Cats) : Cats[i] = c

\* the on-disk entry counts: none of anything, or a mix of 0 .. MaxCount
RawCounts ==
    {[c \in CatSet |-> 0],
     [c \in CatSet |-> CatIndex(c) % (MaxCount + 1)]}

\* the ways a stream is damaged
\*   extra   decoded bytes written beyond (or short of) what the records take
\*   bad     index of the frame whose CRC prefix does not fit its payload
\*   trunc   where the stream's byte budget ends short of what was written
\*   cutFile the file itself ends there, the declared size being intact
Scenarios ==
    {sc \in [k : 1..2, extra : {0 - Slack, 0, Slack, INNO_BLOCK_SIZE},
             bad : {0, 1, 2, LastFrame},
             trunc : {"none", "payload", "allpayload", "prefix", "more"},
             cutFile : BOOLEAN, descOk : BOOLEAN] :
        /\ Cardinality({x \in {1, 2, 3, 4} :
                \/ x = 1 /\ sc.extra # 0
                \/ x = 2 /\ sc.bad # 0
                \/ x = 3 /\ sc.trunc # "none"
                \/ x = 4 /\ ~sc.descOk}) <= 1
        /\ sc.cutFile => sc.trunc \in {"payload", "allpayload", "prefix"}}

NoDamage == [k |-> 1, extra |-> 0, bad |-> 0, trunc |-> "none",
             cutFile |-> FALSE, descOk |-> TRUE]

\* the compression the producer uses for both header streams
CompKind(v, compressed) ==
    IF ~compressed THEN "Stored"
    ELSE IF Ge(v, <<4, 1, 6, 0>>) THEN "LZMA1" ELSE "Zlib"

\* bytes of the framed payload of a stream with dlen bytes of content
PayloadLen(comp, dlen) ==
    CASE comp = "Stored" -> dlen
      [] comp = "Zlib" -> CompLen(comp, dlen)
      [] comp = "LZMA1" -> LzmaPropsLen + CompLen(comp, dlen)

\* the payload cut into frames of INNO_BLOCK_SIZE bytes, the last one shorter
Framing(plen, bad) ==
    LET n == DivCeil(plen, INNO_BLOCK_SIZE)
        b == IF bad = LastFrame THEN n ELSE bad
    IN [i \in 1..n |->
            [len |-> IF i < n THEN INNO_BLOCK_SIZE
                     ELSE plen - INNO_BLOCK_SIZE * (n - 1),
             good |-> i # b]]

\* bytes taken off the end of a stream by a truncation
TruncLen(trunc, lastLen) ==
    CASE trunc = "none" -> 0
      [] trunc = "payload" -> 1
      [] trunc = "allpayload" -> lastLen
      [] trunc = "prefix" -> lastLen + 2
      [] trunc = "more" -> 0 - Slack

MkFile(raw, rawCounts, h1, compressed, sc, overflowChecks, loader, encOk) ==
    LET v == from_raw_version(raw).v
        counts == EntryCountsRead(v, rawCounts)
        comp == CompKind(v, compressed)
        dlen == [k \in 1..2 |->
                    Max(0, Need(v, counts, h1, k)
                           + (IF sc.k = k THEN sc.extra ELSE 0))]
        frames == [k \in 1..2 |->
                      Framing(PayloadLen(comp, dlen[k]),
                              IF sc.k = k THEN sc.bad ELSE 0)]
        lastLen == IF frames[sc.k] = <<>> THEN 0
                   ELSE frames[sc.k][Len(frames[sc.k])].len
        t == TruncLen(sc.trunc, lastLen)
        \* the declared size: bytes of the frames, CRC prefixes included
        size == [k \in 1..2 |->
                    Max(0, SumFrames(frames[k])
                           - (IF sc.k = k /\ ~sc.cutFile THEN t ELSE 0))]
        \* the size older descriptors hold leaves the CRC prefixes out
        bare == [k \in 1..2 |->
                    Max(0, SumPayload(frames[k])
                           - (IF sc.k = k /\ ~sc.cutFile THEN t ELSE 0))]
        strm == [k \in 1..2 |->
                    [frames |-> frames[k], dlen |-> dlen[k],
                     descOk |-> (sc.k # k \/ sc.descOk),
                     field1 |-> IF Ge(v, <<4, 0, 9, 0>>) THEN size[k]
                                ELSE IF comp = "Stored" THEN 0 - 1
                                ELSE bare[k],
                     field2 |-> IF Ge(v, <<4, 0, 9, 0>>)
                                THEN (IF comp = "Stored" THEN 0 ELSE 1)
                                ELSE IF comp = "Stored" THEN bare[k]
                                ELSE dlen[k]]]
        lay == [s |-> strm,
                cut |-> IF ~sc.cutFile THEN 0
                        ELSE t + (IF sc.k = 1
                                  THEN DescLen(v) + SumFrames(frames[2])
                                  ELSE 0)]
    IN [s |-> strm,
        table |-> FrameTable(lay, v),
        desc |-> [k \in 1..2 |-> DescStart(lay, v, k)],
        len |-> FileLen(lay, v),
        h1 |-> h1,
        overflowChecks |-> overflowChecks,
        raw |-> raw,
        rawCounts |-> rawCounts,
        loader |-> loader,
        encOk |-> encOk,
        damage |-> sc]

\* the setup loaders: found by the offset table, by the PE resource, or not at all
Loaders ==
    [strategy : {"legacy", "resource", "none"},
     table : [sig : {"S02", "S05", "S06", "S07", "S515a", "i1.2.10--32",
                     "i1.2.10--16"},
              damage : {"none", "signature", "header_offset", "crc"}]]

GoodLoader == [strategy |-> "resource", table |-> [sig |-> "S515a", damage |-> "none"]]

\* length of the header fields read before the restart AutoBool: short, or up
\* to the end of the first frame
HeadLens == {RecLen, INNO_BLOCK_SIZE}

Inputs ==
    {MkFile(raw, rc, h1, c, sc, oc, GoodLoader, TRUE) :
        raw \in RawVersions, rc \in RawCounts, h1 \in HeadLens, c \in BOOLEAN,
        sc \in Scenarios, oc \in BOOLEAN}
    \cup {MkFile(raw, rc, RecLen, FALSE, NoDamage, TRUE, l, e) :
            raw \in RawVersions, rc \in RawCounts, l \in Loaders, e \in BOOLEAN}

(***************************************************************************)
(* Inno::new as a state machine.                                           *)
(*   inp        the installer file                                         *)
(*   pc         the statement of Inno::new about to run, "done" after      *)
(*              Ok(..) and "failed" after Err(..) or a panic               *)
(*   idx        index in EntryOrder of the category about to be read       *)
(*   err        the error the caller receives                              *)
(*   loaderErr  the error SetupLoader::read_from returned                  *)
(*   version    the parsed InnoVersion                                     *)
(*   counts     the header's entry counts                                  *)
(*   doc        number of records in each list of the document             *)
(*   rd         the stream reader                                          *)
(*   trace      the reads and checks done so far, in order                 *)
(*   checks     for each end-of-stream check done: the stream, whether it  *)
(*              passed, the declared size and the residue at that moment   *)
(*   resetAt    position of the caller's reader when reset was called      *)
(*   fl         state of the flag-bit reader (specification SpecFlags)     *)
(***************************************************************************)
VARIABLES inp, pc, idx, err, loaderErr, version, counts, doc, rd, trace,
          checks, resetAt, fl

parseVars == <<inp, pc, idx, err, loaderErr, version, counts, doc, rd, trace,
               checks, resetAt>>
vars == <<inp, pc, idx, err, loaderErr, version, counts, doc, rd, trace,
          checks, resetAt, fl>>

NoDoc == [c \in CatSet |-> 0]

\* the flag-bit reader at rest
FlagsIdle == [kind |-> "-"]

Init ==
    /\ inp \in Inputs
    /\ pc = "loader"
    /\ idx = 1
    /\ err = NoErr
    /\ loaderErr = NoErr
    /\ version = New(0, 0, 0, 0)
    /\ counts = NoDoc
    /\ doc = NoDoc
    /\ rd = InitReader
    /\ trace = <<>>
    /\ checks = <<>>
    /\ resetAt = 0 - 1
    /\ fl = FlagsIdle

\* return Err(e) to the caller
Fail(e) ==
    /\ pc' = "failed"
    /\ err' = e

\* the outcome r of a read: go on at next, or return its error by `?`
Continue(r, next) ==
    /\ rd' = r.st
    /\ IF r.ok THEN pc' = next /\ err' = err ELSE Fail(r.e)

\* SetupLoader::read_from(&mut reader).map_err(|_| InnoError::NotInnoFile)?
ReadLoader ==
    /\ pc = "loader"
    /\ \E e \in {read_from(inp.loader)} :
          /\ loaderErr' = e
          /\ IF e = NoErr
             THEN pc' = "version" /\ err' = err
             ELSE Fail(PlainErr("NotInnoFile"))
    /\ UNCHANGED <<inp, idx, version, counts, doc, rd, trace, checks, resetAt, fl>>

\* the version string at the header offset the loader table gives
VersionStringAt(f) ==
    IF f.loader.table.damage = "header_offset"
    THEN [paren |-> FALSE, parts |-> <<>>, u |-> FALSE, isx |-> FALSE]
    ELSE f.raw

\* InnoVersion::read, then the comparison with MAX_SUPPORTED_VERSION
ReadVersion ==
    /\ pc = "version"
    /\ \E r \in {from_raw_version(VersionStringAt(inp))} :
          IF ~r.some
          THEN Fail(PlainErr("UnknownVersion")) /\ version' = version
          ELSE IF Gt(r.v, MAX_SUPPORTED_VERSION)
          THEN Fail(UnsupportedVersion(r.v)) /\ version' = r.v
          ELSE /\ version' = r.v
               /\ pc' = IF Ge(r.v, <<6, 5, 0, 0>>) THEN "encryption" ELSE "primary"
               /\ err' = err
    /\ UNCHANGED <<inp, idx, loaderErr, counts, doc, rd, trace, checks, resetAt, fl>>

\* EncryptionHeader::read, present from 6.5 on
ReadEncryptionHeader ==
    /\ pc = "encryption"
    /\ IF inp.encOk
       THEN pc' = "primary" /\ err' = err
       ELSE Fail(CrcErr("Encryption header", <<0 - 1, 0>>, <<0 - 1, 0 - 1>>))
    /\ UNCHANGED <<inp, idx, loaderErr, version, counts, doc, rd, trace, checks,
                   resetAt, fl>>

\* InnoStreamReader::new(&mut reader, inno_version)?
OpenPrimary ==
    /\ pc = "primary"
    /\ \E r \in {StreamNew(inp, rd, version)} : Continue(r, "header")
    /\ UNCHANGED <<inp, idx, loaderErr, version, counts, doc, trace, checks,
                   resetAt, fl>>

\* Header::read(&mut reader, inno_version)?
ReadHeader ==
    /\ pc = "header"
    /\ \E r \in {HeaderRead(inp, rd, version)} :
          /\ Continue(r, "languages")
          /\ counts' = IF r.ok THEN EntryCountsRead(version, inp.rawCounts)
                       ELSE counts
          /\ trace' = IF r.ok THEN Append(trace, "header") ELSE trace
    /\ UNCHANGED <<inp, idx, loaderErr, version, doc, checks, resetAt, fl>>

\* the records of category c, counts[c] of them, collected into the document
ReadCategory(c, next) ==
    \E r \in {ReadRecords(inp, rd, counts[c])} :
       /\ Continue(r, next)
       /\ doc' = IF r.ok THEN [doc EXCEPT ![c] = r.n] ELSE doc
       /\ trace' = IF r.ok THEN Append(trace, c) ELSE trace

ReadLanguages ==
    /\ pc = "languages"
    /\ ReadCategory("language", "wizard_early")
    /\ UNCHANGED <<inp, idx, loaderErr, version, counts, checks, resetAt, fl>>

\* Wizard::read at the place given by cond, Wizard::default() otherwise
ReadWizard(cond, next) ==
    IF cond
    THEN \E r \in {ReadExact(inp, rd, RecLen)} :
            /\ Continue(r, next)
            /\ trace' = IF r.ok THEN Append(trace, "wizard") ELSE trace
    ELSE /\ pc' = next
         /\ UNCHANGED <<rd, err, trace>>

ReadWizardEarly ==
    /\ pc = "wizard_early"
    /\ ReadWizard(Lt(version, <<4, 0, 0, 0>>), "entries")
    /\ UNCHANGED <<inp, idx, loaderErr, version, counts, doc, checks, resetAt, fl>>

\* one category of entries, in the order of Inno::new
ReadEntries ==
    /\ pc = "entries"
    /\ ReadCategory(EntryOrder[idx],
                    IF idx = Len(EntryOrder) THEN "wizard_late" ELSE "entries")
    /\ idx' = IF pc' = "entries" THEN idx + 1 ELSE idx
    /\ UNCHANGED <<inp, loaderErr, version, counts, checks, resetAt, fl>>

ReadWizardLate ==
    /\ pc = "wizard_late"
    /\ ReadWizard(Ge(version, <<4, 0, 0, 0>>), "primary_end")
    /\ UNCHANGED <<inp, idx, loaderErr, version, counts, doc, checks, resetAt, fl>>

\* bytes of the declared size the block reader has not pulled from the source
FramedResidue(st) == st.size - st.total_in

\* decoded bytes of the stream's content no record parser was given
DecodedResidue(f, st) ==
    f.s[st.k].dlen - (IF st.comp = "Stored" THEN st.total_out ELSE st.out)

\* if !reader.is_end_of_stream() { return Err(UnexpectedExtraData(stream)) }
CheckEnd(stream, next) ==
    /\ checks' = Append(checks, [stream |-> stream, passed |-> is_end_of_stream(rd),
                                 size |-> rd.size,
                                 framed |-> FramedResidue(rd),
                                 decoded |-> DecodedResidue(inp, rd)])
    /\ trace' = Append(trace, "check " \o stream)
    /\ IF is_end_of_stream(rd)
       THEN pc' = next /\ err' = err
       ELSE Fail([PlainErr("UnexpectedExtraData") EXCEPT !.loc = stream])

CheckPrimaryEnd ==
    /\ pc = "primary_end"
    /\ CheckEnd("Primary", "reset")
    /\ UNCHANGED <<inp, idx, loaderErr, version, counts, doc, rd, resetAt, fl>>

\* reader = reader.reset()?
Reset ==
    /\ pc = "reset"
    /\ resetAt' = rd.fpos
    /\ \E r \in {reset(inp, rd, version)} : Continue(r, "file_locations")
    /\ trace' = Append(trace, "reset")
    /\ UNCHANGED <<inp, idx, loaderErr, version, counts, doc, checks, fl>>

ReadFileLocations ==
    /\ pc = "file_locations"
    /\ ReadCategory("file_location", "secondary_end")
    /\ UNCHANGED <<inp, idx, loaderErr, version, counts, checks, resetAt, fl>>

CheckSecondaryEnd ==
    /\ pc = "secondary_end"
    /\ CheckEnd("Secondary", "done")
    /\ UNCHANGED <<inp, idx, loaderErr, version, counts, doc, rd, resetAt, fl>>

Next ==
    \/ ReadLoader
    \/ ReadVersion
    \/ ReadEncryptionHeader
    \/ OpenPrimary
    \/ ReadHeader
    \/ ReadLanguages
    \/ ReadWizardEarly
    \/ ReadEntries
    \/ ReadWizardLate
    \/ CheckPrimaryEnd
    \/ Reset
    \/ ReadFileLocations
    \/ CheckSecondaryEnd

Spec == Init /\ [][Next]_vars

(***************************************************************************)
(* Properties of Inno::new (specification Spec).                           *)
(***************************************************************************)
Ended == pc \in {"done", "failed"}

\* the installer is as its producer wrote it
WellFormed(f) ==
    /\ f.damage = NoDamage
    /\ f.loader = GoodLoader
    /\ f.encOk

\* C1: a stream that still has residue when its end-of-stream check runs
\* (declared bytes not pulled, or decoded bytes no parser consumed) fails
\* the check, and Inno::new returns Ok only with zero residue in both streams.
C1_ResidueIsRejected ==
    /\ \A i \in 1..Len(checks) :
          (checks[i].framed # 0 \/ checks[i].decoded # 0) => ~checks[i].passed
    /\ pc = "done" =>
          \A i \in 1..Len(checks) : checks[i].framed = 0 /\ checks[i].decoded = 0

\* C2: every frame accepted has a payload CRC-32 equal to its prefix, and
\* once a frame with another CRC-32 was met the parse has failed with a
\* CrcChecksumMismatch for "Inno block" carrying both checksums.
C2_BadFrameIsCrcChecksumMismatch ==
    /\ \A i \in 1..Len(rd.frames) : rd.frames[i][1] = rd.frames[i][2]
    /\ rd.badCrc =>
          /\ pc = "failed"
          /\ err.kind = "CrcChecksumMismatch"
          /\ err.loc = "Inno block"
          /\ err.actual # <<>> /\ err.expected # <<>>

\* C3: when the framed source ends inside a frame, in its CRC prefix or in
\* its payload, read_block fails with UnexpectedEof: it reports neither a
\* clean end of stream nor another error.
C3_TruncatedFrameIsUnexpectedEof ==
    rd.trunc # "none" => rd.truncRes = "UnexpectedEof"

\* C4: with a loader of version 4.0.10 or later, one changed byte of the
\* loader table makes Inno::new fail with CrcChecksumMismatch for
\* "Setup Loader", whichever way the table was located.
C4_LoaderDamageIsCrcChecksumMismatch ==
    (/\ pc # "loader"
     /\ inp.loader.strategy # "none"
     /\ SignatureVersion(inp.loader.table.sig).some
     /\ Ge(SignatureVersion(inp.loader.table.sig).v, <<4, 0, 10, 0>>)
     /\ inp.loader.table.damage # "none")
    => /\ pc = "failed"
       /\ err.kind = "CrcChecksumMismatch"
       /\ err.loc = "Setup Loader"

\* C5: once the version is parsed, the error is UnsupportedVersion exactly
\* when the version is above 6.6.255.255, and the maximum the error names is
\* 6.6.255.255 too.
C5_UnsupportedVersionAboveDeclaredMax ==
    /\ (/\ pc \notin {"loader", "version"}
        /\ loaderErr = NoErr
        /\ from_raw_version(VersionStringAt(inp)).some)
       => (err.kind = "UnsupportedVersion" <=> Gt(version, <<6, 6, 255, 255>>))
    /\ err.kind = "UnsupportedVersion" =>
          /\ err.version = version.t
          /\ err.max = <<6, 6, 255, 255>>

\* C6: the parse of a well-formed 6.7.0 installer ends with Ok, version
\* 6.7.0.0 and the Unicode flag.
C6_Version670IsParsed ==
    (Ended /\ WellFormed(inp) /\ inp.raw.paren /\ inp.raw.parts = <<6, 7, 0>>)
    => /\ pc = "done"
       /\ version.t = <<6, 7, 0, 0>>
       /\ version.unicode

\* C7: a list of the document is either not read yet or holds as many records
\* as the entry counts say, and after Ok every list holds that many.
C7_RecordCountsMatch ==
    /\ \A c \in CatSet : doc[c] = 0 \/ doc[c] = counts[c]
    /\ pc = "done" => \A c \in CatSet : doc[c] = counts[c]

C7_Witness ==
    /\ pc = "done"
    /\ doc["file_location"] > 0
    /\ \E c \in CatSet : counts[c] = MaxCount /\ doc[c] = MaxCount

\* the reads and checks of a whole parse, the wizard early (v < 4) or late
ParseOrder(early) ==
    <<"header", "language">>
    \o (IF early THEN <<"wizard">> ELSE <<>>)
    \o <<"custom_message", "permission", "type", "component", "task",
         "directory", "is_sig_key", "file", "icon", "ini", "registry",
         "install_delete", "uninstall_delete", "run", "uninstall_run">>
    \o (IF early THEN <<>> ELSE <<"wizard">>)
    \o <<"check Primary", "reset", "file_location", "check Secondary">>

IsPrefix(a, b) == Len(a) <= Len(b) /\ SubSeq(b, 1, Len(a)) = a

\* C8: the reads of a parse follow one fixed order, with the wizard read once,
\* after the languages for v < 4 and after the uninstall-run entries
\* otherwise, and the file locations read only after the primary
\* end-of-stream check passed.
C8_ParseOrder ==
    /\ IsPrefix(trace, ParseOrder(Lt(version, <<4, 0, 0, 0>>)))
    /\ pc = "done" => trace = ParseOrder(Lt(version, <<4, 0, 0, 0>>))
    /\ (\E i \in 1..Len(trace) : trace[i] = "file_location") =>
          /\ checks # <<>>
          /\ checks[1].stream = "Primary"
          /\ checks[1].passed

C8_Witness ==
    /\ pc = "done"
    /\ Lt(version, <<4, 0, 0, 0>>)
    /\ trace[3] = "wizard"
    /\ doc["file_location"] > 0

\* C9: reset is called with the caller's reader at the first byte after the
\* primary stream's declared size, which is where the producer wrote the
\* secondary descriptor, and the secondary descriptor is read from there.
C9_ResetAtEndOfPrimary ==
    resetAt # 0 - 1 =>
        /\ checks[1].passed
        /\ resetAt = inp.desc[1] + DescLen(version) + checks[1].size
        /\ resetAt = inp.desc[2]
        /\ rd.descAt = resetAt

C9_Witness ==
    /\ pc = "file_locations"
    /\ resetAt > 0
    /\ rd.k = 2
    /\ rd.comp = "LZMA1"
    /\ Len(inp.s[1].frames) > 1

(***************************************************************************)
(* The flag-bit reader (header/flag_reader.rs) and the gate lists handed   *)
(* to it.  A gate list is the argument list of one read_flags! call: each  *)
(* entry holds whether its condition is true at version v and the flags it *)
(* adds, in the order written; Pad is the "pad" entry, NoMin when absent   *)
(* or when its condition is false.                                         *)
(***************************************************************************)
G(cond, flagList) == [on |-> cond, flags |-> flagList]

\* Header::read_flags
HeaderGates(v) ==
    << G(TRUE, <<"DISABLE_STARTUP_PROMPT">>),
       G(Lt(v, <<5, 3, 10, 0>>), <<"UNINSTALLABLE">>),
       G(TRUE, <<"CREATE_APP_DIR">>),
       G(Lt(v, <<5, 3, 3, 0>>), <<"DISABLE_DIR_PAGE">>),
       G(Lt(v, <<1, 3, 6, 0>>), <<"DISABLE_DIR_EXISTS_WARNING">>),
       G(Lt(v, <<5, 3, 3, 0>>), <<"DISABLE_PROGRAM_GROUP_PAGE">>),
       G(TRUE, <<"ALLOW_NO_ICONS">>),
       G(~In(v, <<3, 0, 0, 0>>, <<3, 0, 3, 0>>), <<"ALWAYS_RESTART">>),
       G(Lt(v, <<1, 3, 3, 0>>), <<"BACK_SOLID">>),
       G(TRUE, <<"ALWAYS_USE_PERSONAL_GROUP">>),
       G(Lt(v, <<6, 4, 0, 1>>),
         <<"WINDOW_VISIBLE", "WINDOW_SHOW_CAPTION", "WINDOW_RESIZABLE",
           "WINDOW_START_MAXIMISED">>),
       G(TRUE, <<"ENABLED_DIR_DOESNT_EXIST_WARNING">>),
       G(Lt(v, <<4, 1, 2, 0>>), <<"DISABLE_APPEND_DIR">>),
       G(TRUE, <<"PASSWORD">>),
       G(Ge(v, <<1, 2, 6, 0>>), <<"ALLOW_ROOT_DIRECTORY">>),
       G(Ge(v, <<1, 2, 14, 0>>), <<"DISABLE_FINISHED_PAGE">>),
       G(Lt(v, <<3, 0, 4, 0>>), <<"ADMIN_PRIVILEGES_REQUIRED">>),
       G(Lt(v, <<3, 0, 0, 0>>), <<"ALWAYS_CREATE_UNINSTALL_ICON">>),
       G(Lt(v, <<1, 3, 6, 0>>), <<"OVERWRITE_UNINSTALL_REG_ENTRIES">>),
       G(Lt(v, <<5, 6, 1, 0>>), <<"CHANGES_ASSOCIATIONS">>),
       G(In(v, <<1, 3, 0, 0>>, <<5, 3, 8, 0>>), <<"CREATE_UNINSTALL_REG_KEY">>),
       G(Ge(v, <<1, 3, 1, 0>>), <<"USE_PREVIOUS_APP_DIR">>),
       G(Ge(v, <<1, 3, 3, 0>>) /\ Lt(v, <<6, 4, 0, 1>>), <<"BACK_COLOR_HORIZONTAL">>),
       G(Ge(v, <<1, 3, 10, 0>>), <<"USE_PREVIOUS_GROUP">>),
       G(Ge(v, <<1, 3, 20, 0>>), <<"UPDATE_UNINSTALL_LOG_APP_NAME">>),
       G(Ge(v, <<2, 0, 0, 0>>) \/ (v.isx /\ Ge(v, <<1, 3, 10, 0>>)),
         <<"USE_PREVIOUS_SETUP_TYPE">>),
       G(Ge(v, <<2, 0, 0, 0>>),
         <<"DISABLE_READY_MEMO", "ALWAYS_SHOW_COMPONENTS_LIST",
           "FLAT_COMPONENTS_LIST", "SHOW_COMPONENT_SIZES", "USE_PREVIOUS_TASKS",
           "DISABLE_READY_PAGE">>),
       G(Ge(v, <<2, 0, 7, 0>>),
         <<"ALWAYS_SHOW_DIR_ON_READY_PAGE", "ALWAYS_SHOW_GROUP_ON_READY_PAGE">>),
       G(In(v, <<2, 0, 17, 0>>, <<4, 1, 5, 0>>), <<"BZIP_USED">>),
       G(Ge(v, <<2, 0, 18, 0>>), <<"ALLOW_UNC_PATH">>),
       G(Ge(v, <<3, 0, 0, 0>>), <<"USER_INFO_PAGE", "USE_PREVIOUS_USER_INFO">>),
       G(Ge(v, <<3, 0, 1, 0>>), <<"UNINSTALL_RESTART_COMPUTER">>),
       G(Ge(v, <<3, 0, 3, 0>>), <<"RESTART_IF_NEEDED_BY_RUN">>),
       G(Ge(v, <<4, 0, 0, 0>>) \/ (v.isx /\ Ge(v, <<3, 0, 3, 0>>)),
         <<"SHOW_TASKS_TREE_LINES">>),
       G(In(v, <<4, 0, 1, 0>>, <<4, 0, 10, 0>>), <<"DETECT_LANGUAGE_USING_LOCALE">>),
       G(Ge(v, <<4, 0, 9, 0>>), <<"ALLOW_CANCEL_DURING_INSTALL">>),
       G(Ge(v, <<4, 1, 3, 0>>), <<"WIZARD_IMAGE_STRETCH">>),
       G(Ge(v, <<4, 1, 8, 0>>),
         <<"APPEND_DEFAULT_DIR_NAME", "APPEND_DEFAULT_GROUP_NAME">>),
       G(In(v, <<4, 2, 2, 0>>, <<6, 5, 0, 0>>), <<"ENCRYPTION_USED">>),
       G(In(v, <<5, 0, 4, 0>>, <<5, 6, 1, 0>>), <<"CHANGES_ENVIRONMENT">>),
       G(Ge(v, <<5, 1, 7, 0>>) /\ ~v.unicode, <<"SHOW_UNDISPLAYABLE_LANGUAGES">>),
       G(Ge(v, <<5, 1, 13, 0>>), <<"SETUP_LOGGING">>),
       G(Ge(v, <<5, 2, 1, 0>>), <<"SIGNED_UNINSTALLER">>),
       G(Ge(v, <<5, 3, 8, 0>>), <<"USE_PREVIOUS_LANGUAGE">>),
       G(Ge(v, <<5, 3, 9, 0>>), <<"DISABLE_WELCOME_PAGE">>),
       G(Ge(v, <<5, 5, 0, 0>>),
         <<"CLOSE_APPLICATIONS", "RESTART_APPLICATIONS", "ALLOW_NETWORK_DRIVE">>),
       G(Ge(v, <<5, 5, 7, 0>>), <<"FORCE_CLOSE_APPLICATIONS">>),
       G(Ge(v, <<6, 0, 0, 0>>), <<"APP_NAME_HAS_CONSTS", "USE_PREVIOUS_PRIVILEGES">>),
       G(In(v, <<6, 0, 0, 0>>, <<6, 6, 0, 0>>), <<"WIZARD_RESIZABLE">>),
       G(Ge(v, <<6, 3, 0, 0>>), <<"UNINSTALL_LOGGING">>),
       G(Ge(v, <<6, 6, 0, 0>>),
         <<"WIZARD_MODERN", "WIZARD_BORDER_STYLED", "WIZARD_KEEP_ASPECT_RATIO",
           "WIZARD_LIGHT_BUTTONS_UNSTYLED">>) >>

\* File::read
FileGates(v) ==
    << G(TRUE, <<"CONFIRM_OVERWRITE", "NEVER_UNINSTALL", "RESTART_REPLACE",
                 "DELETE_AFTER_INSTALL", "REGISTER_SERVER", "REGISTER_TYPE_LIB",
                 "SHARED_FILE">>),
       G(Lt(v, <<2, 0, 0, 0>>) /\ ~v.isx, <<"IS_README_FILE">>),
       G(TRUE, <<"COMPARE_TIME_STAMP", "FONT_IS_NOT_TRUE_TYPE">>),
       G(Ge(v, <<1, 2, 5, 0>>), <<"SKIP_IF_SOURCE_DOESNT_EXIST">>),
       G(Ge(v, <<1, 2, 6, 0>>), <<"OVERWRITE_READ_ONLY">>),
       G(Ge(v, <<1, 3, 21, 0>>), <<"OVERWRITE_SAME_VERSION", "CUSTOM_DEST_NAME">>),
       G(Ge(v, <<1, 3, 25, 0>>), <<"ONLY_IF_DEST_FILE_EXISTS">>),
       G(Ge(v, <<2, 0, 5, 0>>), <<"NO_REG_ERROR">>),
       G(Ge(v, <<3, 0, 1, 0>>), <<"UNINS_RESTART_DELETE">>),
       G(Ge(v, <<3, 0, 5, 0>>),
         <<"ONLY_IF_DOESNT_EXIST", "IGNORE_VERSION", "PROMPT_IF_OLDER">>),
       G(Ge(v, <<4, 0, 0, 0>>) \/ (v.isx /\ Ge(v, <<3, 0, 6, 0>>)), <<"DONT_COPY">>),
       G(Ge(v, <<4, 0, 5, 0>>), <<"UNINS_REMOVE_READ_ONLY">>),
       G(Ge(v, <<4, 1, 8, 0>>), <<"RECURSE_SUB_DIRS_EXTERNAL">>),
       G(Ge(v, <<4, 2, 1, 0>>), <<"REPLACE_SAME_VERSION_IF_CONTENTS_DIFFER">>),
       G(Ge(v, <<4, 2, 5, 0>>), <<"DONT_VERIFY_CHECKSUM">>),
       G(Ge(v, <<5, 0, 3, 0>>), <<"UNINS_NO_SHARED_FILE_PROMPT">>),
       G(Ge(v, <<5, 1, 0, 0>>), <<"CREATE_ALL_SUB_DIRS">>),
       G(Ge(v, <<5, 1, 2, 0>>), <<"BITS_32">>),
       G(TRUE, <<"BITS_64">>),
       G(Ge(v, <<5, 2, 0, 0>>),
         <<"EXTERNAL_SIZE_PRESET", "SET_NTFS_COMPRESSION", "UNSET_NTFS_COMPRESSION">>),
       G(Ge(v, <<5, 2, 5, 0>>), <<"GAC_INSTALL">>),
       G(Ge(v, <<6, 5, 0, 0>>), <<"DOWNLOAD", "EXTRACT_ARCHIVE">>) >>

\* Task::read
TaskGates(v) ==
    << G(TRUE, <<"EXCLUSIVE", "UNCHECKED">>),
       G(Ge(v, <<2, 0, 5, 0>>), <<"RESTART">>),
       G(Ge(v, <<2, 0, 6, 0>>), <<"CHECKED_ONCE">>),
       G(Ge(v, <<4, 2, 3, 0>>), <<"DONT_INHERIT_CHECK">>) >>

\* FileLocation::read
LocationGates(v) ==
    << G(TRUE, <<"VERSION_INFO_VALID">>),
       G(Lt(v, <<6, 4, 3, 0>>), <<"VERSION_INFO_NOT_VALID">>),
       G(In(v, <<2, 0, 17, 0>>, <<4, 0, 1, 0>>), <<"BZIPPED">>),
       G(Ge(v, <<4, 0, 10, 0>>), <<"TIMESTAMP_IN_UTC">>),
       G(In(v, <<4, 2, 0, 0>>, <<6, 4, 3, 0>>), <<"IS_UNINSTALLER_EXE">>),
       G(Ge(v, <<4, 1, 8, 0>>), <<"CALL_INSTRUCTION_OPTIMIZED">>),
       G(In(v, <<4, 2, 0, 0>>, <<6, 4, 3, 0>>), <<"TOUCH">>),
       G(Ge(v, <<4, 2, 2, 0>>), <<"CHUNK_ENCRYPTED">>),
       G(Ge(v, <<4, 2, 5, 0>>), <<"CHUNK_COMPRESSED">>),
       G(In(v, <<5, 1, 13, 0>>, <<6, 4, 3, 0>>), <<"SOLID_BREAK">>),
       G(Ge(v, <<5, 5, 7, 0>>) /\ Lt(v, <<6, 3, 0, 0>>), <<"SIGN", "SIGN_ONCE">>) >>

\* Registry::read
RegistryGates(v) ==
    << G(TRUE, <<"CREATE_VALUE_IF_DOESNT_EXIST", "UNINSTALL_DELETE_VALUE",
                 "UNINSTALL_CLEAR_VALUE", "UNINSTALL_DELETE_ENTIRE_KEY",
                 "UNINSTALL_DELETE_ENTIRE_KEY_IF_EMPTY">>),
       G(Ge(v, <<1, 2, 6, 0>>), <<"PRESERVE_STRING_TYPE">>),
       G(Ge(v, <<1, 3, 9, 0>>), <<"DELETE_KEY", "DELETE_VALUE">>),
       G(Ge(v, <<1, 3, 12, 0>>), <<"NO_ERROR">>),
       G(Ge(v, <<1, 3, 16, 0>>), <<"DONT_CREATE_KEY">>),
       G(Ge(v, <<5, 1, 0, 0>>), <<"BITS_32", "BITS_64">>) >>

\* Icon::read
IconGates(v) ==
    << G(TRUE, <<"NEVER_UNINSTALL">>),
       G(Lt(v, <<1, 3, 26, 0>>), <<"RUN_MINIMIZED">>),
       G(TRUE, <<"CREATE_ONLY_IF_FILE_EXISTS", "USE_APP_PATHS">>),
       G(In(v, <<5, 0, 3, 0>>, <<6, 3, 0, 0>>), <<"FOLDER_SHORTCUT">>),
       G(Ge(v, <<5, 4, 2, 0>>), <<"EXCLUDE_FROM_SHOW_IN_NEW_INSTALL">>),
       G(Ge(v, <<5, 5, 0, 0>>), <<"PREVENT_PINNING">>),
       G(Ge(v, <<6, 1, 0, 0>>), <<"HAS_APP_USER_MODEL_TOAST_ACTIVATOR_CLSID">>) >>

\* RunEntry::read
RunGates(v) ==
    << G(Ge(v, <<1, 2, 3, 0>>), <<"SHELL_EXECUTE">>),
       G(Ge(v, <<1, 3, 9, 0>>) \/ (v.isx /\ Ge(v, <<1, 3, 8, 0>>)),
         <<"SKIP_IF_DOESNT_EXIST">>),
       G(Ge(v, <<2, 0, 0, 0>>),
         <<"POST_INSTALL", "UNCHECKED", "SKIP_IF_SILENT", "SKIP_IF_NOT_SILENT">>),
       G(Ge(v, <<2, 0, 8, 0>>), <<"HIDE_WIZARD">>),
       G(Ge(v, <<5, 1, 10, 0>>), <<"BITS_32", "BITS_64">>),
       G(Ge(v, <<5, 2, 0, 0>>), <<"RUN_AS_ORIGINAL_USER">>),
       G(Ge(v, <<6, 1, 0, 0>>), <<"DONT_LOG_PARAMETERS">>),
       G(Ge(v, <<6, 3, 0, 0>>), <<"LOG_OUTPUT">>) >>

FlagKinds == {"header", "file", "task", "location", "registry", "icon", "run"}

GateList(kind, v) ==
    CASE kind = "header" -> HeaderGates(v)
      [] kind = "file" -> FileGates(v)
      [] kind = "task" -> TaskGates(v)
      [] kind = "location" -> LocationGates(v)
      [] kind = "registry" -> RegistryGates(v)
      [] kind = "icon" -> IconGates(v)
      [] kind = "run" -> RunGates(v)

\* Option::None for min_bytes
NoMin == 0 - 1

\* the "pad" entry: File::read ends with "pad if version >= 6.7 => 8"
Pad(kind, v) ==
    IF kind = "file" /\ Ge(v, <<6, 7, 0, 0>>) THEN 8 ELSE NoMin

(***************************************************************************)
(* FlagReader.  A stream is a pattern of byte values and a length; the     *)
(* reader state holds the offset in the stream and the fields of the       *)
(* struct.  err is set when a read_u8 failed and `?` returned the error.   *)
(***************************************************************************)
\* bytes in a flag stream: enough for every gate list, and too few for some
FlagStreamLens == {2, 9}

BytePatterns == {"zeros", "ones", "mixed"}

\* the byte at offset o of a stream
Byte(st, o) ==
    CASE st.pat = "zeros" -> 0
      [] st.pat = "ones" -> 255
      [] st.pat = "mixed" -> (149 + 37 * o) % 256
      [] st.pat = "spike" -> IF o = st.at THEN st.val ELSE 0

\* FlagReader::new
FlagReaderNew ==
    [off |-> 0, bit_pos |-> 0, current_byte |-> 0, bytes_read |-> 0,
     flags |-> {}, min_bytes |-> NoMin, err |-> FALSE]

\* ReadBytesExt::read_u8 through the reader: n = 1 and the byte, or the error
read_u8(st, r) ==
    IF r.off >= st.len THEN [r EXCEPT !.err = TRUE]
    ELSE [r EXCEPT !.off = @ + 1]

\* FlagReader::next_bit: the reader after the call; the bit is Bit(r') below
next_bit(st, r) ==
    IF r.bit_pos % 8 = 0
    THEN With(read_u8(st, r),
         LAMBDA q :
            IF q.err THEN q
            ELSE [q EXCEPT !.current_byte = Byte(st, r.off),
                           !.bit_pos = 1, !.bytes_read = @ + 1])
    ELSE [r EXCEPT !.bit_pos = @ + 1]

\* a variant that takes the bits of a byte most-significant first
Bit_MsbFirst(r) == (r.current_byte \div (2 ^ (8 - r.bit_pos))) % 2 # 0

\* the bit next_bit returned: (current_byte >> bit_pos) & 1 before the increment
Bit(r) == (r.current_byte \div (2 ^ (r.bit_pos - 1))) % 2 # 0

\* FlagReader::add
RECURSIVE add(_, _, _)
add(st, r, flagList) ==
    IF flagList = <<>> \/ r.err THEN r
    ELSE With(next_bit(st, r),
         LAMBDA r1 :
            IF r1.err THEN r1
            ELSE add(st,
                     IF Bit(r1) THEN [r1 EXCEPT !.flags = @ \cup {Head(flagList)}]
                     ELSE r1,
                     Tail(flagList)))

\* FlagReader::with_min_bytes
with_min_bytes(r, min) == [r EXCEPT !.min_bytes = min]

\* n calls of read_u8, stopping at the first that fails
RECURSIVE SkipBytes(_, _, _)
SkipBytes(st, r, n) ==
    IF n <= 0 \/ r.err THEN r
    ELSE With(read_u8(st, r), LAMBDA q : SkipBytes(st, q, n - 1))

\* a variant that reads the padding byte only after a non-zero third byte
finalize_PadIfSet(st, r) ==
    IF r.min_bytes # NoMin THEN SkipBytes(st, r, r.min_bytes - r.bytes_read)
    ELSE IF r.bytes_read = 3 /\ r.current_byte # 0 THEN read_u8(st, r)
    ELSE r

\* FlagReader::finalize
finalize(st, r) ==
    IF r.min_bytes # NoMin THEN SkipBytes(st, r, r.min_bytes - r.bytes_read)
    ELSE IF r.bytes_read = 3 THEN read_u8(st, r)
    ELSE r

(***************************************************************************)
(* One read_flags! call run on two streams of the same length at the same  *)
(* version (specification SpecFlags).                                      *)
(*   fl.kind, fl.v   the flag set read and the version                     *)
(*   fl.i            index of the next entry of the gate list              *)
(*   fl.st, fl.r     the two streams and the reader on each                *)
(*   fl.done         finalize has returned, or an error was returned       *)
(***************************************************************************)
\* versions at which the flags are read, with their variants
FlagVersionTuples ==
    {<<1, 2, 10>>, <<1, 3, 8>>, <<1, 3, 21>>, <<2, 0, 8>>, <<3, 0, 2>>,
     <<3, 0, 6>>, <<4, 0, 5>>, <<4, 1, 5>>, <<4, 2, 5>>, <<5, 1, 5>>,
     <<5, 3, 9>>, <<5, 5, 7>>, <<6, 0, 5>>, <<6, 3, 0>>, <<6, 4, 0, 1>>,
     <<6, 4, 3>>, <<6, 5, 2>>, <<6, 6, 1>>, <<6, 7, 0>>}

FlagVersions ==
    {from_raw_version([paren |-> TRUE, parts |-> t, u |-> u, isx |-> x]).v :
        t \in FlagVersionTuples, u \in BOOLEAN, x \in BOOLEAN}

InitFlags ==
    /\ fl \in {[kind |-> k, v |-> v, i |-> 1,
                st |-> <<[pat |-> pa, len |-> n], [pat |-> pb, len |-> n]>>,
                r |-> <<FlagReaderNew, FlagReaderNew>>,
                done |-> FALSE] :
                  k \in FlagKinds, v \in FlagVersions, n \in FlagStreamLens,
                  pa \in BytePatterns, pb \in BytePatterns}
    /\ inp = <<>>
    /\ pc = "idle"
    /\ idx = 1
    /\ err = NoErr
    /\ loaderErr = NoErr
    /\ version = New(0, 0, 0, 0)
    /\ counts = NoDoc
    /\ doc = NoDoc
    /\ rd = InitReader
    /\ trace = <<>>
    /\ checks = <<>>
    /\ resetAt = 0 - 1

\* one entry of the gate list: "if cond { flag_reader.add(flags)? }"
FlagsAdd ==
    /\ fl.kind # "-"
    /\ ~fl.done
    /\ fl.i <= Len(GateList(fl.kind, fl.v))
    /\ \E e \in {GateList(fl.kind, fl.v)[fl.i]} :
       \E r2 \in {[j \in 1..2 |->
                     IF e.on THEN add(fl.st[j], fl.r[j], e.flags) ELSE fl.r[j]]} :
          fl' = [fl EXCEPT !.r = r2, !.i = @ + 1,
                           !.done = \E j \in 1..2 : r2[j].err]
    /\ UNCHANGED parseVars

\* the end of the list: the "pad" entry, then flag_reader.finalize()
FlagsFinalize ==
    /\ fl.kind # "-"
    /\ ~fl.done
    /\ fl.i = Len(GateList(fl.kind, fl.v)) + 1
    /\ \E min \in {Pad(fl.kind, fl.v)} :
       \E r2 \in {[j \in 1..2 |->
                     finalize(fl.st[j],
                              IF min # NoMin THEN with_min_bytes(fl.r[j], min)
                              ELSE fl.r[j])]} :
          fl' = [fl EXCEPT !.r = r2, !.i = @ + 1, !.done = TRUE]
    /\ UNCHANGED parseVars

NextFlags == FlagsAdd \/ FlagsFinalize

SpecFlags == InitFlags /\ [][NextFlags]_vars

\* C10: run at one version on two streams of equal length, the flag read
\* leaves both readers at the same offset at every step, whatever the bytes.
C10_FlagBytesDependOnVersionOnly ==
    fl.kind # "-" =>
        /\ fl.r[1].off = fl.r[2].off
        /\ fl.r[1].bytes_read = fl.r[2].bytes_read
        /\ fl.r[1].err = fl.r[2].err

C10_Witness ==
    /\ fl.kind # "-"
    /\ fl.done
    /\ ~fl.r[1].err
    /\ fl.r[1].flags # fl.r[2].flags
    /\ fl.r[1].bytes_read = 3
    /\ fl.r[1].off = 4
    /\ fl.r[2].off = 4

\* the flags of the entries of a gate list whose condition holds, in order
RECURSIVE EnabledFlags(_)
EnabledFlags(gates) ==
    IF gates = <<>> THEN <<>>
    ELSE (IF Head(gates).on THEN Head(gates).flags ELSE <<>>)
         \o EnabledFlags(Tail(gates))

\* bit b (0 = least significant) of the byte at offset o of a stream
StreamBit(st, o, b) == (Byte(st, o) \div (2 ^ b)) % 2 = 1

\* the read_flags! call on stream j has returned Ok
FlagsRead(j) ==
    /\ fl.kind \in FlagKinds
    /\ fl.i = Len(GateList(fl.kind, fl.v)) + 2
    /\ ~fl.r[j].err

MaxFlags == 34

MaxMin == 8

\* flags handed to one add call
AddSizes == {1, 7, 8}

InitReaderApi ==
    /\ fl \in {[kind |-> "reader", st |-> [pat |-> pa, len |-> n],
                r |-> FlagReaderNew, n |-> 0, done |-> FALSE] :
                  pa \in BytePatterns, n \in FlagStreamLens}
    /\ inp = <<>>
    /\ pc = "idle"
    /\ idx = 1
    /\ err = NoErr
    /\ loaderErr = NoErr
    /\ version = New(0, 0, 0, 0)
    /\ counts = NoDoc
    /\ doc = NoDoc
    /\ rd = InitReader
    /\ trace = <<>>
    /\ checks = <<>>
    /\ resetAt = 0 - 1

\* flag_reader.add([..])?
ReaderAdd ==
    /\ fl.kind = "reader"
    /\ ~fl.done
    /\ fl.r.min_bytes = NoMin
    /\ \E c \in AddSizes :
          /\ fl.n + c <= MaxFlags
          /\ \E r2 \in {add(fl.st, fl.r, [i \in 1..c |-> fl.n + i - 1])} :
                fl' = [fl EXCEPT !.r = r2, !.n = @ + c, !.done = r2.err]
    /\ UNCHANGED parseVars

\* flag_reader.with_min_bytes(min)
ReaderWithMinBytes ==
    /\ fl.kind = "reader"
    /\ ~fl.done
    /\ fl.r.min_bytes = NoMin
    /\ \E min \in 0..MaxMin : fl' = [fl EXCEPT !.r = with_min_bytes(@, min)]
    /\ UNCHANGED parseVars

\* flag_reader.finalize()
ReaderFinalize ==
    /\ fl.kind = "reader"
    /\ ~fl.done
    /\ \E r2 \in {finalize(fl.st, fl.r)} :
          fl' = [fl EXCEPT !.r = r2, !.done = TRUE]
    /\ UNCHANGED parseVars

NextReader == ReaderAdd \/ ReaderWithMinBytes \/ ReaderFinalize

SpecReader == InitReaderApi /\ [][NextReader]_vars

\* finalize has returned Ok
Finalized == fl.kind = "reader" /\ fl.done /\ ~fl.r.err

\* ceil(n / 8), the packed length of n flags
PackedLen(n) == DivCeil(n, 8)

\* C11: after finalize a read of n flags has consumed B bytes, B = 4 if the
\* packed length p is 3 and p otherwise, raised to the declared minimum if
\* there is one.
C11_BytesConsumed ==
    Finalized =>
        LET p == PackedLen(fl.n)
            B == IF p = 3 THEN 4 ELSE p
        IN fl.r.off = IF fl.r.min_bytes = NoMin THEN B
                       ELSE Max(B, fl.r.min_bytes)

(***************************************************************************)
(* Header::read from install_verbosity to its end (specification           *)
(* SpecHeader): the one-byte tagged unions, the fixed-width fields between *)
(* them, the flags and the fix-up pass, on a stream that starts at         *)
(* install_verbosity.  Versions from 1.3 on; earlier ones read three more  *)
(* strings after the fix-ups.                                              *)
(*   fl.v, fl.st, fl.r   version, stream and reader                        *)
(*   fl.i                index of the next entry of HeaderTail             *)
(*   fl.header           the fields assigned so far                        *)
(*   fl.explicit         fields read from the stream                       *)
(*   fl.synth            fields assigned by the fix-up pass                *)
(*   fl.unionFailed      the first tagged union whose read failed          *)
(*   fl.done, fl.ok, fl.errAt   Header::read has returned, and how         *)
(***************************************************************************)
\* a one-byte tagged union read with try_read_from_io(..)?
U(name, cond, known) ==
    [name |-> name, on |-> cond, width |-> 1, known |-> known,
     shape |-> "union"]

\* a fixed-width field read with read_u8 / read_u32 / read_u64
P(name, cond, width) ==
    [name |-> name, on |-> cond, width |-> width, known |-> {},
     shape |-> "plain"]

\* the AutoBool of 3.0.0 <= v < 3.0.3, read in a match whose `_` arm drops errors
Dropped(name, cond, known) ==
    [name |-> name, on |-> cond, width |-> 1, known |-> known,
     shape |-> "dropped"]

\* a field assigned without a read
Assigned(name, cond, value) ==
    [name |-> name, on |-> cond, width |-> 0, known |-> {value},
     shape |-> "assigned"]

\* enum discriminants
AutoBool == {0, 1, 2}
InstallVerbosity == {0, 1, 2}
LogMode == {0, 1, 2}
PrivilegeLevel == {0, 1, 2, 3}
LanguageDetection == {0, 1, 2}
HeaderCompression == {0, 1, 2, 3, 4, 255}

\* WizardStyle::try_read_from: the bytes it accepts
WizardStyleBytes(v) == IF Ge(v, <<6, 6, 0, 0>>) THEN {0, 1, 2} ELSE {0, 1}

\* WizardStyle::Modern
Modern == 4

\* WizardStyle::try_read_from: the variant (Light, Dark, Dynamic, Classic, Modern)
WizardStyleOf(v, byte) == IF Ge(v, <<6, 6, 0, 0>>) THEN byte ELSE 3 + byte

\* Header::read, lines 278-343, in order
HeaderTail(v) ==
    << U("install_verbosity",
         In(v, <<2, 0, 0, 0>>, <<5, 0, 0, 0>>) \/ (v.isx /\ Ge(v, <<1, 3, 4, 0>>)),
         InstallVerbosity),
       U("uninstall_log_mode", Ge(v, <<1, 3, 0, 0>>), LogMode),
       Assigned("uninstall_style", Ge(v, <<5, 0, 0, 0>>), Modern),
       U("uninstall_style",
         Lt(v, <<5, 0, 0, 0>>)
            /\ (Ge(v, <<2, 0, 0, 0>>) \/ (v.isx /\ Ge(v, <<1, 3, 13, 0>>))),
         WizardStyleBytes(v)),
       U("dir_exists_warning", Ge(v, <<1, 3, 6, 0>>), AutoBool),
       P("code_line_offset",
         v.isx /\ In(v, <<2, 0, 10, 0>>, <<3, 0, 0, 0>>), 4),
       Dropped("restart", In(v, <<3, 0, 0, 0>>, <<3, 0, 3, 0>>), AutoBool),
       U("privileges_required",
         Ge(v, <<3, 0, 4, 0>>) \/ (v.isx /\ Ge(v, <<3, 0, 3, 0>>)),
         PrivilegeLevel),
       P("privileges_required_overrides_allowed", Ge(v, <<5, 7, 0, 0>>), 1),
       U("show_language_dialog", Ge(v, <<4, 0, 10, 0>>), AutoBool),
       U("language_detection", Ge(v, <<4, 0, 10, 0>>), LanguageDetection),
       U("compression", Ge(v, <<5, 3, 9, 0>>), HeaderCompression),
       P("architectures", In(v, <<5, 1, 0, 0>>, <<6, 3, 0, 0>>), 2),
       P("signed_uninstaller", In(v, <<5, 2, 1, 0>>, <<5, 3, 10, 0>>), 8),
       U("disable_dir_page", Ge(v, <<5, 3, 3, 0>>), AutoBool),
       U("disable_program_group_page", Ge(v, <<5, 3, 3, 0>>), AutoBool),
       P("uninstall_display_size", Ge(v, <<5, 5, 0, 0>>), 8),
       P("uninstall_display_size",
         Lt(v, <<5, 5, 0, 0>>) /\ Ge(v, <<5, 3, 6, 0>>), 4),
       P("blackbox", v.unicode /\ v.t \in {<<5, 3, 10, 0>>, <<5, 4, 2, 0>>,
                                           <<5, 5, 0, 0>>}, 1) >>

\* Header::default
HeaderDefault ==
    [install_verbosity |-> 0, uninstall_log_mode |-> 1, uninstall_style |-> 0,
     dir_exists_warning |-> 0, privileges_required |-> 0,
     show_language_dialog |-> 0, language_detection |-> 0,
     compression |-> 255, disable_dir_page |-> 0,
     disable_program_group_page |-> 0, flags |-> {}]

\* AutoBool::from_header_flags: Yes or No
from_header_flags(flags, flag) == IF flag \in flags THEN 2 ELSE 1

\* the fix-up pass after the flags: the fields it assigns and their values
FixUps(v, flags) ==
    (IF Lt(v, <<3, 0, 4, 0>>)
     THEN {<<"privileges_required",
             IF "ADMIN_PRIVILEGES_REQUIRED" \in flags THEN 2 ELSE 0>>}
     ELSE {})
    \cup
    (IF Lt(v, <<4, 0, 10, 0>>)
     THEN {<<"show_language_dialog",
             from_header_flags(flags, "SHOW_LANGUAGE_DIALOG")>>,
           <<"language_detection",
             IF "DETECT_LANGUAGE_USING_LOCALE" \in flags THEN 1 ELSE 0>>}
     ELSE {})
    \cup
    (IF Lt(v, <<4, 1, 5, 0>>)
     THEN {<<"compression", IF "BZIP_USED" \in flags THEN 2 ELSE 1>>}
     ELSE {})
    \cup
    (IF Lt(v, <<5, 3, 3, 0>>)
     THEN {<<"disable_dir_page", from_header_flags(flags, "DISABLE_DIR_PAGE")>>,
           <<"disable_program_group_page",
             from_header_flags(flags, "DISABLE_PROGRAM_GROUP_PAGE")>>}
     ELSE {})

\* the add calls of a gate list in a row, stopping at the first error
RECURSIVE AddGates(_, _, _)
AddGates(st, r, gates) ==
    IF gates = <<>> \/ r.err THEN r
    ELSE With(IF Head(gates).on THEN add(st, r, Head(gates).flags) ELSE r,
         LAMBDA r1 : AddGates(st, r1, Tail(gates)))

\* Header::read_flags: the read_flags! call, then the flags that map() adds
HeaderReadFlags(st, r, v) ==
    With(finalize(st, AddGates(st, r, HeaderGates(v))),
    LAMBDA r1 :
       IF r1.err THEN r1
       ELSE [r1 EXCEPT !.flags =
                @ \cup (IF Lt(v, <<4, 0, 9, 0>>)
                        THEN {"ALLOW_CANCEL_DURING_INSTALL"} ELSE {})
                  \cup (IF Lt(v, <<5, 5, 0, 0>>)
                        THEN {"ALLOW_NETWORK_DRIVE"} ELSE {})])

\* versions at which the header is read, with their variants
HeaderVersionTuples ==
    {<<1, 3, 21>>, <<2, 0, 8>>, <<3, 0, 0>>, <<3, 0, 2>>, <<3, 0, 3>>,
     <<3, 0, 4>>, <<4, 0, 9>>, <<4, 0, 10>>, <<4, 1, 5>>, <<5, 3, 3>>,
     <<5, 3, 9>>, <<5, 5, 0>>, <<5, 5, 7>>, <<6, 3, 0>>, <<6, 6, 1>>}

HeaderVersions ==
    {from_raw_version([paren |-> TRUE, parts |-> t, u |-> u, isx |-> x]).v :
        t \in HeaderVersionTuples, u \in BOOLEAN, x \in BOOLEAN}

\* lengths of the stream: every short length, and one that holds every field
MaxShort == 12

FullLen == 40

\* a byte that is no discriminant of any of the unions
BadByte == 9

HeaderStreams ==
    {[pat |-> pa, len |-> n] :
        pa \in {"zeros", "ones"}, n \in (0..MaxShort) \cup {FullLen}}
    \cup {[pat |-> "spike", at |-> a, val |-> b, len |-> FullLen] :
            a \in 0..MaxShort, b \in {1, 2, BadByte}}

InitHeader ==
    /\ fl \in {[kind |-> "header_read", v |-> v, st |-> st,
                r |-> FlagReaderNew, i |-> 1, header |-> HeaderDefault,
                explicit |-> {}, synth |-> {}, unionFailed |-> "-",
                done |-> FALSE, ok |-> FALSE, errAt |-> "-"] :
                  v \in HeaderVersions, st \in HeaderStreams}
    /\ inp = <<>>
    /\ pc = "idle"
    /\ idx = 1
    /\ err = NoErr
    /\ loaderErr = NoErr
    /\ version = New(0, 0, 0, 0)
    /\ counts = NoDoc
    /\ doc = NoDoc
    /\ rd = InitReader
    /\ trace = <<>>
    /\ checks = <<>>
    /\ resetAt = 0 - 1

\* Header::read returns the error of entry e
HeaderFail(e, r2) ==
    fl' = [fl EXCEPT !.r = r2, !.done = TRUE, !.ok = FALSE, !.errAt = e.name,
                     !.unionFailed = IF e.shape = "union" /\ @ = "-"
                                     THEN e.name ELSE @]

\* the entry e of HeaderTail, its condition being true
ReadEntry(e) ==
    \E r2 \in {SkipBytes(fl.st, fl.r, e.width)} :
    \E byte \in {Byte(fl.st, fl.r.off)} :
       CASE e.shape = "assigned" ->
               fl' = [fl EXCEPT !.i = @ + 1,
                                !.header[e.name] = CHOOSE x \in e.known : TRUE]
         [] e.shape = "plain" ->
               IF r2.err THEN HeaderFail(e, r2)
               ELSE fl' = [fl EXCEPT !.i = @ + 1, !.r = r2]
         [] e.shape = "union" ->
               IF r2.err \/ byte \notin e.known THEN HeaderFail(e, r2)
               ELSE fl' = [fl EXCEPT
                              !.i = @ + 1, !.r = r2,
                              !.explicit = @ \cup {e.name},
                              !.header[e.name] =
                                 IF e.name = "uninstall_style"
                                 THEN WizardStyleOf(fl.v, byte) ELSE byte]
         [] e.shape = "dropped" ->
               IF r2.err \/ byte \notin e.known
               THEN fl' = [fl EXCEPT
                              !.i = @ + 1,
                              !.r = IF r2.err THEN @ ELSE r2,
                              !.unionFailed = IF @ = "-" THEN e.name ELSE @]
               ELSE fl' = [fl EXCEPT
                              !.i = @ + 1, !.r = r2,
                              !.header.flags =
                                 @ \cup (CASE byte = 2 -> {"ALWAYS_RESTART"}
                                           [] byte = 0 -> {"RESTART_IF_NEEDED_BY_RUN"}
                                           [] OTHER -> {})]

\* one "if condition { field = read(..)? }" of Header::read
HeaderField ==
    /\ fl.kind = "header_read"
    /\ ~fl.done
    /\ fl.i <= Len(HeaderTail(fl.v))
    /\ \E e \in {HeaderTail(fl.v)[fl.i]} :
          IF e.on THEN ReadEntry(e) ELSE fl' = [fl EXCEPT !.i = @ + 1]
    /\ UNCHANGED parseVars

\* header.flags |= Self::read_flags(&mut reader, version)?
HeaderFlagsRead ==
    /\ fl.kind = "header_read"
    /\ ~fl.done
    /\ fl.i = Len(HeaderTail(fl.v)) + 1
    /\ \E r2 \in {HeaderReadFlags(fl.st,
                                  [FlagReaderNew EXCEPT !.off = fl.r.off],
                                  fl.v)} :
          IF r2.err
          THEN fl' = [fl EXCEPT !.r = r2, !.done = TRUE, !.ok = FALSE,
                                !.errAt = "flags"]
          ELSE fl' = [fl EXCEPT !.r = r2, !.i = @ + 1,
                                !.header.flags = @ \cup r2.flags]
    /\ UNCHANGED parseVars

\* the fix-up pass, then Ok(header)
HeaderFixUp ==
    /\ fl.kind = "header_read"
    /\ ~fl.done
    /\ fl.i = Len(HeaderTail(fl.v)) + 2
    /\ \E fx \in {FixUps(fl.v, fl.header.flags)} :
          fl' = [fl EXCEPT
                    !.i = @ + 1, !.done = TRUE, !.ok = TRUE,
                    !.synth = {a[1] : a \in fx},
                    !.header = [n \in DOMAIN @ |->
                                   IF \E a \in fx : a[1] = n
                                   THEN (CHOOSE a \in fx : a[1] = n)[2]
                                   ELSE @[n]]]
    /\ UNCHANGED parseVars

NextHeader == HeaderField \/ HeaderFlagsRead \/ HeaderFixUp

SpecHeader == InitHeader /\ [][NextHeader]_vars

\* C13: once the read of a tagged union of the header has failed, Header::read
\* has returned that field's error; it reads no later field.
C13_UnionFailureAborts ==
    (fl.kind = "header_read" /\ fl.unionFailed # "-") =>
        /\ fl.done
        /\ ~fl.ok
        /\ fl.errAt = fl.unionFailed

\* the fields the fix-up pass may assign
FixUpFields ==
    {"privileges_required", "show_language_dialog", "language_detection",
     "compression", "disable_dir_page", "disable_program_group_page"}

\* C14: no field is both read from the stream and then assigned by the
\* fix-up pass.
C14_FixUpOnlyWhereNotRead ==
    fl.kind = "header_read" =>
        fl.explicit \cap fl.synth \cap FixUpFields = {}

(***************************************************************************)
(* InnoVersion on its own (specification SpecVersion): a value is made by  *)
(* new, new_with_variant or from_raw_version, then compared with another   *)
(* version or with a tuple of 1 to 4 components.                           *)
(*   fl.how   the constructor used        fl.a    the value made           *)
(*   fl.src   the version string parsed   fl.b    the other operand        *)
(*   fl.res   the results of the comparisons                               *)
(***************************************************************************)
\* InnoVersion::new_with_variant
new_with_variant(major, minor, patch, revision, variant) ==
    [t |-> <<major, minor, patch, revision>>,
     unicode |-> IF major >= 6 /\ minor >= 3 THEN TRUE ELSE "unicode" \in variant,
     isx |-> "isx" \in variant,
     bits16 |-> "bits16" \in variant]

\* InnoVersion::as_tuple
as_tuple(v) == v.t

\* u8::cmp
OrdOf(x, y) == IF x < y THEN "Less" ELSE IF x = y THEN "Equal" ELSE "Greater"

\* Ordering::then_with along four components: Ord for InnoVersion and for tuples
cmp4(a, b) ==
    IF OrdOf(a[1], b[1]) # "Equal" THEN OrdOf(a[1], b[1])
    ELSE IF OrdOf(a[2], b[2]) # "Equal" THEN OrdOf(a[2], b[2])
    ELSE IF OrdOf(a[3], b[3]) # "Equal" THEN OrdOf(a[3], b[3])
    ELSE OrdOf(a[4], b[4])

\* Ord::cmp and PartialOrd::partial_cmp for InnoVersion
cmp(a, b) == cmp4(<<a.t[1], a.t[2], a.t[3], a.t[4]>>,
                  <<b.t[1], b.t[2], b.t[3], b.t[4]>>)

\* a variant that compares the variant flags too, as a derived PartialEq would
eq_Derived(a, b) == a = b

\* PartialEq for InnoVersion
eq(a, b) ==
    /\ a.t[1] = b.t[1]
    /\ a.t[2] = b.t[2]
    /\ a.t[3] = b.t[3]
    /\ a.t[4] = b.t[4]

\* the tuple (self.0, self.1, 0, 0) built from a shorter one
Fill(t) == [i \in 1..4 |-> IF i <= Len(t) THEN t[i] ELSE 0]

\* Self::new(major, minor, 0, 0) built from a tuple
NewOf(t) == New(Fill(t)[1], Fill(t)[2], Fill(t)[3], Fill(t)[4])

\* PartialEq<tuple> for InnoVersion
eq_vt(v, t) == eq(v, NewOf(t))

\* PartialEq<InnoVersion> for tuples
eq_tv(t, v) == Fill(t) = as_tuple(v)

\* PartialOrd<tuple> for InnoVersion
partial_cmp_vt(v, t) ==
    IF Len(t) = 4 THEN cmp4(as_tuple(v), t) ELSE cmp(v, NewOf(t))

\* PartialOrd<InnoVersion> for tuples
partial_cmp_tv(t, v) == cmp4(Fill(t), as_tuple(v))

\* a == b, a < b, a > b, cmp and the same with the operands exchanged
Compare(a, b) ==
    IF b.shape = "version"
    THEN [eq |-> eq(a, b.v), lt |-> cmp(a, b.v) = "Less",
          gt |-> cmp(a, b.v) = "Greater", cmp |-> cmp(a, b.v),
          req |-> eq(b.v, a), rlt |-> cmp(b.v, a) = "Less",
          rgt |-> cmp(b.v, a) = "Greater", rcmp |-> cmp(b.v, a)]
    ELSE [eq |-> eq_vt(a, b.t), lt |-> partial_cmp_vt(a, b.t) = "Less",
          gt |-> partial_cmp_vt(a, b.t) = "Greater",
          cmp |-> partial_cmp_vt(a, b.t),
          req |-> eq_tv(b.t, a), rlt |-> partial_cmp_tv(b.t, a) = "Less",
          rgt |-> partial_cmp_tv(b.t, a) = "Greater",
          rcmp |-> partial_cmp_tv(b.t, a)]

(***************************************************************************)
(* A version string as a sequence of tokens: words, "(", ")", ".", and     *)
(* numbers.  RawOf finds what from_raw_version looks for, where it looks.  *)
(***************************************************************************)
\* a token that is a word or a sign, and one that is a number
W(word) == [w |-> word, n |-> 0 - 1]

N(number) == [w |-> "#", n |-> number]

\* a sequence of words as tokens
Words(ws) == [i \in 1..Len(ws) |-> W(ws[i])]

\* index of the first token equal to x at or after position from; 0 if none
RECURSIVE Position(_, _, _)
Position(s, x, from) ==
    IF from > Len(s) THEN 0
    ELSE IF s[from] = x THEN from
    ELSE Position(s, x, from + 1)

\* the tokens lo..hi of s
Slice(s, lo, hi) == [i \in 1..(IF hi >= lo THEN hi - lo + 1 ELSE 0) |-> s[lo + i - 1]]

\* the numbers among the tokens: split on "." and keep what parses as u8
RECURSIVE Numbers(_)
Numbers(s) ==
    IF s = <<>> THEN <<>>
    ELSE (IF Head(s).n \in 0..255 THEN <<Head(s).n>> ELSE <<>>)
         \o Numbers(Tail(s))

\* from_raw_version up to the tokenised form: the first "(" .. ")" holds the
\* version, and "(u)", "ISX", "Inno Setup Extensions" are looked for after it
RawOf(s) ==
    LET start == Position(s, W("("), 1)
        end == IF start = 0 THEN 0 ELSE Position(s, W(")"), start)
        remaining == Slice(s, end + 1, Len(s))
        u_start == Position(remaining, W("("), 1)
        u_end == IF u_start = 0 THEN 0 ELSE Position(remaining, W(")"), u_start)
    IN IF start = 0 \/ end = 0
       THEN [paren |-> FALSE, parts |-> <<>>, u |-> FALSE, isx |-> FALSE]
       ELSE [paren |-> TRUE,
             parts |-> Numbers(Slice(s, start + 1, end - 1)),
             u |-> (u_end # 0
                    /\ Slice(remaining, u_start + 1, u_end - 1) \in {<<W("u")>>, <<W("U")>>}),
             isx |-> \E i \in 1..Len(remaining) :
                        remaining[i].w \in {"ISX", "Inno Setup Extensions"}]

\* components of the versions made
VersionTuples ==
    {<<a, b, c, d>> : a \in {5, 6, 7}, b \in {0, 2, 3}, c \in {0, 4}, d \in {0, 1}}

Variants == SUBSET {"unicode", "isx", "bits16"}

\* "(a.b.c)" or "(a.b.c.d)"
VersionTokens(t) ==
    <<W("("), N(t[1]), W("."), N(t[2]), W("."), N(t[3])>>
    \o (IF t[4] # 0 THEN <<W("."), N(t[4])>> ELSE <<>>) \o <<W(")")>>

\* version strings: what stands before and after the version
VersionStrings ==
    {pre \o VersionTokens(t) \o post :
        pre \in {Words(<<"Inno Setup Setup Data">>),
                 Words(<<"My", "Inno Setup Extensions", "Setup Data">>),
                 Words(<<"ISX", "Setup Data">>)},
        t \in VersionTuples,
        post \in {<<>>, Words(<<"(", "u", ")">>), Words(<<"(", "U", ")">>),
                  Words(<<"with", "ISX">>) \o VersionTokens(<<1, 3, 12, 1>>),
                  Words(<<"with", "ISX">>) \o VersionTokens(<<3, 0, 0, 0>>)
                     \o Words(<<"(", "u", ")">>)}}

\* the other operand of a comparison
Operands ==
    {[shape |-> "version",
      v |-> new_with_variant(t[1], t[2], t[3], t[4], w)] :
        t \in {x \in VersionTuples : x[1] = 6 /\ x[2] # 0}, w \in Variants}
    \cup {[shape |-> "tuple", t |-> Slice(t, 1, n)] :
            t \in VersionTuples, n \in 1..4}

NoVersion == New(0, 0, 0, 0)

InitVersion ==
    /\ fl = [kind |-> "version", how |-> "-", a |-> NoVersion, src |-> <<>>,
             b |-> [shape |-> "-"], res |-> [eq |-> FALSE]]
    /\ inp = <<>>
    /\ pc = "idle"
    /\ idx = 1
    /\ err = NoErr
    /\ loaderErr = NoErr
    /\ version = New(0, 0, 0, 0)
    /\ counts = NoDoc
    /\ doc = NoDoc
    /\ rd = InitReader
    /\ trace = <<>>
    /\ checks = <<>>
    /\ resetAt = 0 - 1

\* InnoVersion::new(..)
VersionNew ==
    /\ fl.kind = "version"
    /\ fl.how = "-"
    /\ \E t \in VersionTuples :
          fl' = [fl EXCEPT !.how = "new", !.a = New(t[1], t[2], t[3], t[4])]
    /\ UNCHANGED parseVars

\* InnoVersion::new_with_variant(..)
VersionNewWithVariant ==
    /\ fl.kind = "version"
    /\ fl.how = "-"
    /\ \E t \in VersionTuples, w \in Variants :
          fl' = [fl EXCEPT !.how = "new_with_variant",
                           !.a = new_with_variant(t[1], t[2], t[3], t[4], w)]
    /\ UNCHANGED parseVars

\* InnoVersion::from_raw_version(..) returning Some
VersionParse ==
    /\ fl.kind = "version"
    /\ fl.how = "-"
    /\ \E s \in VersionStrings :
       \E r \in {from_raw_version(RawOf(s))} :
          /\ r.some
          /\ fl' = [fl EXCEPT !.how = "parse", !.a = r.v, !.src = s]
    /\ UNCHANGED parseVars

\* the comparisons of the value made with another operand
VersionCompare ==
    /\ fl.kind = "version"
    /\ fl.how # "-"
    /\ fl.b.shape = "-"
    /\ \E b \in Operands : fl' = [fl EXCEPT !.b = b, !.res = Compare(fl.a, b)]
    /\ UNCHANGED parseVars

NextVersion ==
    VersionNew \/ VersionNewWithVariant \/ VersionParse \/ VersionCompare

SpecVersion == InitVersion /\ [][NextVersion]_vars

\* C15: every version made whose components are at least (6, 3, 0, 0) has the
\* UNICODE flag.
C15_UnicodeFrom63 ==
    (fl.kind = "version" /\ fl.how # "-" /\ ~VLt(fl.a.t, <<6, 3, 0, 0>>))
        => fl.a.unicode

\* a is before b in the lexicographic order of 4-tuples
LexLess(a, b) ==
    \E i \in 1..4 : a[i] < b[i] /\ \A j \in 1..(i - 1) : a[j] = b[j]

\* the 4-tuple of an operand, missing components zero
TupleOf(b) ==
    IF b.shape = "version" THEN b.v.t
    ELSE [i \in 1..4 |-> IF i \in DOMAIN b.t THEN b.t[i] ELSE 0]

\* C16: every comparison of a version with a version or a tuple is the
\* lexicographic comparison of the two 4-tuples, whatever the variants;
\* equality is cmp = Equal, and exchanging the operands mirrors the result.
C16_ComparisonIsLexicographic ==
    (fl.kind = "version" /\ fl.b.shape # "-") =>
        LET A == fl.a.t
            B == TupleOf(fl.b)
        IN /\ fl.res.eq = (A = B)
           /\ fl.res.lt = LexLess(A, B)
           /\ fl.res.gt = LexLess(B, A)
           /\ (fl.res.cmp = "Equal") = fl.res.eq
           /\ (fl.res.cmp = "Less") = fl.res.lt
           /\ (fl.res.cmp = "Greater") = fl.res.gt
           /\ fl.res.req = fl.res.eq
           /\ fl.res.rgt = fl.res.lt
           /\ fl.res.rlt = fl.res.gt
           /\ (fl.res.rcmp = "Equal") = fl.res.eq

C16_Witness ==
    /\ fl.kind = "version"
    /\ fl.b.shape = "version"
    /\ fl.a.t = fl.b.v.t
    /\ fl.a # fl.b.v
    /\ fl.res.eq
    /\ fl.res.cmp = "Equal"

\* C17: a version string that parses to a version below 6.3 gives the ISX
\* flag exactly when it holds "ISX" or "Inno Setup Extensions" anywhere.
C17_IsxFromSubstringAnywhere ==
    (fl.kind = "version" /\ fl.how = "parse" /\ VLt(fl.a.t, <<6, 3, 0, 0>>)) =>
        (fl.a.isx <=> \E i \in 1..Len(fl.src) :
                         fl.src[i].w \in {"ISX", "Inno Setup Extensions"})

\* C18: a loader table with the 16-bit legacy signature i1.2.10--16 is read
\* without error (its version is 1.2.10 with BITS_16).
C18_LegacySignatureRecognized ==
    (/\ pc # "loader"
     /\ inp.loader.strategy # "none"
     /\ inp.loader.table = [sig |-> "i1.2.10--16", damage |-> "none"])
        => loaderErr = NoErr

(***************************************************************************)
(* The stream descriptor on its own (specification SpecBudget): the two    *)
(* u32 fields after the CRC take any value, and read_header builds the     *)
(* Compression from them.                                                  *)
(*   fl.v, fl.field1, fl.field2, fl.overflowChecks   the inputs            *)
(*   fl.c                                    the result, once fl.done      *)
(***************************************************************************)
\* halves of the u32 values tried: small, in the middle, and near the top
HighHalves == {0, 1, 32768, 65471, 65472, 65535}

LowHalves == {0, 1, 1000, 4096, 4097, 65535}

BudgetVersions == {New(3, 0, 2, 0), New(4, 0, 5, 0), New(4, 0, 9, 0), New(5, 5, 7, 0)}

InitBudget ==
    /\ fl \in {[kind |-> "budget", v |-> v, field1 |-> <<h1, l1>>,
                field2 |-> <<h2, l2>>, overflowChecks |-> oc, done |-> FALSE,
                c |-> [panic |-> FALSE, size |-> <<0, 0>>, comp |-> "-"]] :
                  v \in BudgetVersions, h1 \in HighHalves, l1 \in LowHalves,
                  h2 \in {0, 65535}, l2 \in {0, 1000, 65535}, oc \in BOOLEAN}
    /\ inp = <<>>
    /\ pc = "idle"
    /\ idx = 1
    /\ err = NoErr
    /\ loaderErr = NoErr
    /\ version = New(0, 0, 0, 0)
    /\ counts = NoDoc
    /\ doc = NoDoc
    /\ rd = InitReader
    /\ trace = <<>>
    /\ checks = <<>>
    /\ resetAt = 0 - 1

\* read_header past the CRC comparison
BudgetRead ==
    /\ fl.kind = "budget"
    /\ ~fl.done
    /\ fl' = [fl EXCEPT !.done = TRUE,
                        !.c = compression_of(fl.v, fl.field1, fl.field2,
                                             fl.overflowChecks)]
    /\ UNCHANGED parseVars

NextBudget == BudgetRead

SpecBudget == InitBudget /\ [][NextBudget]_vars

\* C19: for v < 4.0.9 the byte budget is s + 4 * ceil(s / 4096), s being the
\* uncompressed size when the compressed size is all ones (Stored) and the
\* compressed size otherwise (Zlib); no value of s makes it wrap or abort.
C19_LegacyBudget ==
    (fl.kind = "budget" /\ fl.done /\ Lt(fl.v, <<4, 0, 9, 0>>)) =>
        LET stored == fl.field1 = <<65535, 65535>>
            s == IF stored THEN fl.field2 ELSE fl.field1
            blocks == s[1] * 16 + ((s[2] + 4095) \div 4096)
            low == s[2] + ((4 * blocks) % 65536)
        IN /\ ~fl.c.panic
           /\ fl.c.comp = (IF stored THEN "Stored" ELSE "Zlib")
           /\ fl.c.size[2] = low % 65536
           /\ fl.c.size[1] = s[1] + ((4 * blocks) \div 65536) + (low \div 65536)

(***************************************************************************)
(* FileLocation::read on one record (specification SpecLocation).  The two *)
(* slice numbers on disk are inputs of their own; fl.st gives the length   *)
(* of the record's bytes and the value of the bytes after the slices.      *)
(*   fl.v            the version                                           *)
(*   fl.first, fl.last   the slice numbers on disk                         *)
(*   fl.r            the reader, fl.step the position in the function      *)
(*   fl.chunk, fl.options, fl.sign_mode   the fields of the result         *)
(*   fl.done, fl.ok  the function has returned, with Ok                    *)
(***************************************************************************)
\* largest slice number on disk
MaxSlice == 3

LocationVersions ==
    {New(2, 0, 17, 0), New(3, 0, 6, 0), New(4, 0, 0, 0), New(4, 0, 1, 0),
     New(4, 2, 5, 0), New(5, 3, 9, 0), New(5, 5, 7, 0), New(6, 3, 0, 0),
     New(6, 4, 3, 0), New(6, 5, 2, 0),
     [New(1, 2, 10, 0) EXCEPT !.bits16 = TRUE]}

\* lengths of the record's bytes: short ones, and one that holds every field
LocationLens == {0, 4, 8, 30, 96}

LocationStreams ==
    {[pat |-> pa, len |-> n] : pa \in BytePatterns, n \in LocationLens}

\* io::Read::read_exact of n bytes, the bytes themselves left aside
read_exact(st, r, n) ==
    IF r.err THEN r
    ELSE IF st.len - r.off >= n THEN [r EXCEPT !.off = @ + n]
    ELSE [r EXCEPT !.off = Max(@, st.len), !.err = TRUE]

LF(name, on, width) == [name |-> name, on |-> on, width |-> width]

\* the reads between the slice numbers and the flags, in the code's order
LocationFields(v) ==
    << LF("sub_offset", TRUE, IF Ge(v, <<6, 5, 2, 0>>) THEN 8 ELSE 4),
       LF("file.offset", Ge(v, <<4, 0, 1, 0>>), 8),
       LF("file.size", TRUE, IF Ge(v, <<4, 0, 0, 0>>) THEN 8 ELSE 4),
       LF("original_size", TRUE, IF Ge(v, <<4, 0, 0, 0>>) THEN 8 ELSE 4),
       LF("checksum", TRUE,
          IF Ge(v, <<6, 4, 0, 0>>) THEN 32
          ELSE IF Ge(v, <<5, 3, 9, 0>>) THEN 20
          ELSE IF Ge(v, <<4, 2, 0, 0>>) THEN 16
          ELSE 4),
       LF("time", v.bits16, 2),
       LF("date", v.bits16, 2),
       LF("file_time", ~v.bits16, 8),
       LF("file_version_ms", TRUE, 4),
       LF("file_version_ls", TRUE, 4) >>

\* SignMode, by discriminant
NoSetting == 0

SignYes == 1

SignOnce == 2

SignCheck == 3

\* From<FileLocationFlags> for SignMode
SignModeFrom(flags) ==
    IF "SIGN_ONCE" \in flags THEN SignOnce
    ELSE IF "SIGN" \in flags THEN SignYes
    ELSE NoSetting

InitLocation ==
    /\ fl \in {[kind |-> "location_read", v |-> v, first |-> a, last |-> b,
                st |-> st, r |-> FlagReaderNew, step |-> 0,
                chunk |-> [first_slice |-> 0, last_slice |-> 0],
                options |-> {}, sign_mode |-> NoSetting,
                done |-> FALSE, ok |-> FALSE] :
                  v \in LocationVersions, a \in 0..MaxSlice, b \in 0..MaxSlice,
                  st \in LocationStreams}
    /\ inp = <<>>
    /\ pc = "idle"
    /\ idx = 1
    /\ err = NoErr
    /\ loaderErr = NoErr
    /\ version = New(0, 0, 0, 0)
    /\ counts = NoDoc
    /\ doc = NoDoc
    /\ rd = InitReader
    /\ trace = <<>>
    /\ checks = <<>>
    /\ resetAt = 0 - 1

\* the two read_u32 of the Chunk literal, then the rebasing of v < 4
LocationSlices ==
    /\ fl.kind = "location_read"
    /\ ~fl.done
    /\ fl.step = 0
    /\ \E r2 \in {read_exact(fl.st, read_exact(fl.st, fl.r, 4), 4)} :
          IF r2.err THEN fl' = [fl EXCEPT !.r = r2, !.done = TRUE]
          ELSE fl' = [fl EXCEPT
                         !.r = r2, !.step = 1,
                         !.chunk =
                            IF Lt(fl.v, <<4, 0, 0, 0>>)
                               /\ fl.first >= 1 /\ fl.last >= 1
                            THEN [first_slice |-> fl.first - 1,
                                  last_slice |-> fl.last - 1]
                            ELSE [first_slice |-> fl.first,
                                  last_slice |-> fl.last]]
    /\ UNCHANGED parseVars

\* one read of sub_offset, the file's offset and sizes, the checksum, the
\* time or the file version
LocationField ==
    /\ fl.kind = "location_read"
    /\ ~fl.done
    /\ fl.step \in 1..Len(LocationFields(fl.v))
    /\ \E e \in {LocationFields(fl.v)[fl.step]} :
       \E r2 \in {IF e.on THEN read_exact(fl.st, fl.r, e.width) ELSE fl.r} :
          IF r2.err THEN fl' = [fl EXCEPT !.r = r2, !.done = TRUE]
          ELSE fl' = [fl EXCEPT !.r = r2, !.step = @ + 1]
    /\ UNCHANGED parseVars

\* read_flags!, the implicit CHUNK_COMPRESSED, the sign mode, then Ok(Self)
LocationOptions ==
    /\ fl.kind = "location_read"
    /\ ~fl.done
    /\ fl.step = Len(LocationFields(fl.v)) + 1
    /\ \E r2 \in {finalize(fl.st,
                           AddGates(fl.st,
                                    [FlagReaderNew EXCEPT !.off = fl.r.off],
                                    LocationGates(fl.v)))} :
       \E stored \in {In(fl.v, <<6, 3, 0, 0>>, <<6, 4, 3, 0>>)} :
       \E r3 \in {IF stored THEN read_exact(fl.st, r2, 1) ELSE r2} :
       \E byte \in {Byte(fl.st, r2.off)} :
       \E options \in {r2.flags
                       \cup (IF Lt(fl.v, <<4, 2, 5, 0>>)
                             THEN {"CHUNK_COMPRESSED"} ELSE {})} :
          IF r3.err \/ (stored /\ byte > SignCheck)
          THEN fl' = [fl EXCEPT !.r = r3, !.done = TRUE]
          ELSE fl' = [fl EXCEPT
                         !.r = r3, !.step = @ + 1, !.done = TRUE, !.ok = TRUE,
                         !.options = options
                            \cup (IF "BZIPPED" \in options
                                  THEN {"CHUNK_COMPRESSED"} ELSE {}),
                         !.sign_mode = IF stored THEN byte
                                       ELSE SignModeFrom(options)]
    /\ UNCHANGED parseVars

NextLocation == LocationSlices \/ LocationField \/ LocationOptions

SpecLocation == InitLocation /\ [][NextLocation]_vars

\* C20: a FileLocation that was read has first_slice <= last_slice, at every
\* version and whatever the two slice numbers on disk are.
C20_SliceOrder ==
    (fl.kind = "location_read" /\ fl.done /\ fl.ok) =>
        fl.chunk.first_slice <= fl.chunk.last_slice

(***************************************************************************)
(* Wizard::read on one decoded stream (specification SpecWizard).  The     *)
(* stream is a sequence of items: a u32 count, or one raw Pascal string,   *)
(* written as the number that identifies its bytes (0: the empty string).  *)
(*   fl.v, fl.compression, fl.encryption_used   version and header fields  *)
(*   fl.s, fl.avail  the items, and how many of them the stream holds      *)
(*   fl.pos          items consumed, fl.step the position in the function  *)
(*   fl.seqs         the image sequences read_images returned, in order    *)
(*   fl.wizard       the Wizard under construction                         *)
(*   fl.done, fl.ok  the function has returned, with Ok                    *)
(***************************************************************************)
\* most images of one sequence on disk
MaxImages == 2

WizardVersions ==
    {New(1, 3, 21, 0), [New(1, 3, 21, 0) EXCEPT !.isx = TRUE], New(2, 0, 8, 0),
     New(5, 5, 7, 0), New(5, 6, 0, 0), New(6, 5, 0, 0), New(6, 6, 0, 0),
     New(6, 7, 0, 0)}

\* the images of the k-th sequence on disk, n of them; each has its own bytes
ImagesOnDisk(k, n) == [j \in 1..n |-> 10 * k + j]

\* the items of a sequence as the version writes it
ImageItems(v, images) ==
    IF Ge(v, <<5, 6, 0, 0>>) THEN <<Len(images)>> \o images
    ELSE IF images = <<>> THEN <<0>> ELSE <<images[1]>>

\* the items of a wizard record: four sequences and two DLLs
WizardItems(v, n) ==
    ImageItems(v, ImagesOnDisk(1, n[1])) \o ImageItems(v, ImagesOnDisk(2, n[2]))
    \o ImageItems(v, ImagesOnDisk(3, n[3])) \o ImageItems(v, ImagesOnDisk(4, n[4]))
    \o <<91, 92>>

\* Wizard::default()
WizardDefault ==
    [images |-> <<>>, small_images |-> <<>>, images_dynamic_dark |-> <<>>,
     small_images_dynamic_dark |-> <<>>, decompressor_dll |-> 0,
     decrypt_dll |-> 0]

\* Wizard::read_images at item pos + 1: the images and the new position
read_images(v, s, avail, pos) ==
    LET counted == Ge(v, <<5, 6, 0, 0>>)
        at == IF counted THEN pos + 1 ELSE pos
        count == IF counted /\ pos < avail THEN s[pos + 1] ELSE 1
        images == SubSeq(s, at + 1, Min(at + count, avail))
    IN IF (counted /\ pos >= avail) \/ at + count > avail
       THEN [ok |-> FALSE, images |-> <<>>, pos |-> Min(at + count, avail)]
       ELSE [ok |-> TRUE, pos |-> at + count,
             images |-> IF ~counted /\ images[1] = 0 THEN <<>> ELSE images]

\* read_raw_pascal_string at item pos + 1
read_raw_pascal_string(s, avail, pos) ==
    IF pos >= avail THEN [ok |-> FALSE, bytes |-> 0, pos |-> pos]
    ELSE [ok |-> TRUE, bytes |-> s[pos + 1], pos |-> pos + 1]

InitWizard ==
    /\ fl \in {[kind |-> "wizard_read", v |-> v, compression |-> c,
                encryption_used |-> e, s |-> WizardItems(v, n), avail |-> a,
                pos |-> 0, step |-> 1, seqs |-> <<>>, wizard |-> WizardDefault,
                done |-> FALSE, ok |-> FALSE] :
                  v \in WizardVersions, c \in {"Stored", "BZip2"},
                  e \in BOOLEAN, n \in [1..4 -> 0..MaxImages],
                  a \in {0, 3, 4 * (MaxImages + 1) + 2}}
    /\ inp = <<>>
    /\ pc = "idle"
    /\ idx = 1
    /\ err = NoErr
    /\ loaderErr = NoErr
    /\ version = New(0, 0, 0, 0)
    /\ counts = NoDoc
    /\ doc = NoDoc
    /\ rd = InitReader
    /\ trace = <<>>
    /\ checks = <<>>
    /\ resetAt = 0 - 1

\* the read_images call of the step given, its result stored in the field
WizardReadInto(field) ==
    \E r \in {read_images(fl.v, fl.s, Min(fl.avail, Len(fl.s)), fl.pos)} :
       IF ~r.ok THEN fl' = [fl EXCEPT !.pos = r.pos, !.done = TRUE]
       ELSE fl' = [fl EXCEPT !.pos = r.pos, !.step = @ + 1,
                             !.seqs = Append(@, r.images),
                             !.wizard[field] = r.images]

\* images: Self::read_images(..)?
WizardImages ==
    /\ fl.kind = "wizard_read"
    /\ ~fl.done
    /\ fl.step = 1
    /\ WizardReadInto("images")
    /\ UNCHANGED parseVars

\* if version >= 2 || version.is_isx() { wizard.small_images = .. }
WizardSmallImages ==
    /\ fl.kind = "wizard_read"
    /\ ~fl.done
    /\ fl.step = 2
    /\ IF Ge(fl.v, <<2, 0, 0, 0>>) \/ fl.v.isx
       THEN WizardReadInto("small_images")
       ELSE fl' = [fl EXCEPT !.step = @ + 1]
    /\ UNCHANGED parseVars

\* if version >= 6.6 { .. }: the first assignment
WizardDarkImages ==
    /\ fl.kind = "wizard_read"
    /\ ~fl.done
    /\ fl.step = 3
    /\ IF Ge(fl.v, <<6, 6, 0, 0>>)
       THEN WizardReadInto("images")
       ELSE fl' = [fl EXCEPT !.step = @ + 1]
    /\ UNCHANGED parseVars

\* if version >= 6.6 { .. }: the second assignment
WizardDarkSmallImages ==
    /\ fl.kind = "wizard_read"
    /\ ~fl.done
    /\ fl.step = 4
    /\ IF Ge(fl.v, <<6, 6, 0, 0>>)
       THEN WizardReadInto("small_images")
       ELSE fl' = [fl EXCEPT !.step = @ + 1]
    /\ UNCHANGED parseVars

\* the two DLLs, then Ok(wizard)
WizardDlls ==
    /\ fl.kind = "wizard_read"
    /\ ~fl.done
    /\ fl.step = 5
    /\ \E a \in {Min(fl.avail, Len(fl.s))} :
       \E wantDll \in {\/ fl.compression = "BZip2"
                       \/ (fl.compression = "LZMA1" /\ fl.v.t = <<4, 1, 5, 0>>)
                       \/ (fl.compression = "Zlib" /\ Ge(fl.v, <<4, 2, 6, 0>>))} :
       \E d1 \in {IF wantDll THEN read_raw_pascal_string(fl.s, a, fl.pos)
                  ELSE [ok |-> TRUE, bytes |-> 0, pos |-> fl.pos]} :
       \E d2 \in {IF d1.ok /\ fl.encryption_used
                  THEN read_raw_pascal_string(fl.s, a, d1.pos)
                  ELSE [ok |-> d1.ok, bytes |-> 0, pos |-> d1.pos]} :
          IF ~d2.ok THEN fl' = [fl EXCEPT !.pos = d2.pos, !.done = TRUE]
          ELSE fl' = [fl EXCEPT !.pos = d2.pos, !.step = @ + 1,
                                !.done = TRUE, !.ok = TRUE,
                                !.wizard.decompressor_dll = d1.bytes,
                                !.wizard.decrypt_dll = d2.bytes]
    /\ UNCHANGED parseVars

NextWizard ==
    \/ WizardImages
    \/ WizardSmallImages
    \/ WizardDarkImages
    \/ WizardDarkSmallImages
    \/ WizardDlls

SpecWizard == InitWizard /\ [][NextWizard]_vars

\* C21: from 6.6 on four image sequences are read, normal, small, dynamic-dark
\* normal and dynamic-dark small; images and small_images hold the first two
\* and the dynamic-dark fields the last two.  Before 6.6 only the normal and,
\* from version 2 or with ISX, the small sequence are read.
C21_WizardImageFields ==
    (fl.kind = "wizard_read" /\ fl.done /\ fl.ok) =>
        IF Ge(fl.v, <<6, 6, 0, 0>>)
        THEN /\ Len(fl.seqs) = 4
             /\ fl.wizard.images = fl.seqs[1]
             /\ fl.wizard.small_images = fl.seqs[2]
             /\ fl.wizard.images_dynamic_dark = fl.seqs[3]
             /\ fl.wizard.small_images_dynamic_dark = fl.seqs[4]
        ELSE /\ Len(fl.seqs) = (IF Ge(fl.v, <<2, 0, 0, 0>>) \/ fl.v.isx
                                THEN 2 ELSE 1)
             /\ fl.wizard.images = fl.seqs[1]
             /\ fl.wizard.small_images =
                   (IF Len(fl.seqs) = 2 THEN fl.seqs[2] ELSE <<>>)
             /\ fl.wizard.images_dynamic_dark = <<>>
             /\ fl.wizard.small_images_dynamic_dark = <<>>

(***************************************************************************)
(* The Pascal strings of a document through Inno::new (specification       *)
(* SpecStrings).  A string is [state, by]: None, Bytes, or Utf8 with the   *)
(* encoding that decoded it ("-" for a default value).  The fields         *)
(* followed are those of the header, of the first language and of the      *)
(* first entry of each category that holds a PascalString.                 *)
(*   fl.v            the version                                           *)
(*   fl.present      the strings on disk are not empty                     *)
(*   fl.disk         the language id or codepage word of each language     *)
(*   fl.has          the categories that have an entry                     *)
(*   fl.language_index   of the custom message                             *)
(*   fl.avail        steps whose reads find their bytes                    *)
(*   fl.languages    the codepage of each Language read                    *)
(*   fl.codepage     the codepage Inno::new resolved                       *)
(*   fl.f            the strings, fl.rewritten: a decode changed a Utf8    *)
(***************************************************************************)
\* most languages of a document
MaxLanguages == 2

\* codepage::to_encoding on the words tried
to_encoding(word) ==
    CASE word = 1252 -> "WINDOWS_1252"
      [] word = 1251 -> "WINDOWS_1251"
      [] word = 932 -> "SHIFT_JIS"
      [] OTHER -> "None"

CodepageWords == {0, 932, 1251, 1252}

PsNone == [state |-> "None", by |-> "-"]

PsBytes == [state |-> "Bytes", by |-> "-"]

\* PascalString::default() and PascalString::from(&str)
PsDefault == [state |-> "Utf8", by |-> "-"]

\* PascalString::read: None for the length 0
PsRead(present) == IF present THEN PsBytes ELSE PsNone

\* PascalString::decode, on Some(_) only
decode(ps, codepage) ==
    CASE ps.state = "Utf8" -> ps
      [] ps.state = "Bytes" -> [state |-> "Utf8", by |-> codepage]
      [] OTHER -> ps

\* the codepage Language::read gives a language whose id or codepage word is w
LanguageCodepage(v, w) ==
    IF Lt(v, <<4, 2, 2, 0>>)
    THEN IF to_encoding(w) # "None" THEN to_encoding(w) ELSE "WINDOWS_1252"
    ELSE IF ~v.unicode
    THEN IF w # 0 /\ to_encoding(w) # "None" THEN to_encoding(w)
         ELSE "WINDOWS_1252"
    ELSE "UTF_16LE"

\* a variant that returns the first codepage whatever the others are
find_or_first_First(codepages) ==
    IF codepages = <<>> THEN "None" ELSE codepages[1]

\* Itertools::find_or_first with the predicate codepage == WINDOWS_1252
RECURSIVE find_or_first(_)
find_or_first(codepages) ==
    IF codepages = <<>> THEN "None"
    ELSE IF Head(codepages) = "WINDOWS_1252" THEN Head(codepages)
    ELSE With(find_or_first(Tail(codepages)),
         LAMBDA found : IF found = "WINDOWS_1252" THEN found
                        ELSE Head(codepages))

\* let codepage = if inno_version.is_unicode() { .. } else { .. }
ResolveCodepage(v, languages) ==
    IF v.unicode THEN "UTF_16LE"
    ELSE With(find_or_first(languages),
         LAMBDA found : IF found = "None" THEN "WINDOWS_1252" ELSE found)

StringFields ==
    {"header.app_name", "header.app_id", "language.name",
     "language.license_text", "message.value", "permission",
     "directory.permissions", "registry.value", "registry.permissions"}

StringVersions ==
    {New(3, 0, 6, 0), New(4, 0, 11, 0), New(4, 2, 5, 0), New(5, 5, 7, 0),
     [New(5, 5, 7, 0) EXCEPT !.unicode = TRUE], New(6, 6, 0, 0)}

StringCategories == {"message", "permission", "directory", "registry"}

InitStrings ==
    /\ fl \in {[kind |-> "strings", v |-> v, present |-> pr, disk |-> d,
                has |-> h, language_index |-> li, avail |-> a, step |-> 1,
                languages |-> <<>>, codepage |-> "-",
                f |-> [n \in StringFields |-> PsNone], rewritten |-> FALSE,
                done |-> FALSE, ok |-> FALSE] :
                  v \in StringVersions, pr \in BOOLEAN,
                  d \in UNION {[1..k -> CodepageWords] : k \in 0..MaxLanguages},
                  h \in {{}, {"message"}, {"directory", "registry"},
                         StringCategories},
                  li \in {0 - 1, 0}, a \in {2, 8}}
    /\ inp = <<>>
    /\ pc = "idle"
    /\ idx = 1
    /\ err = NoErr
    /\ loaderErr = NoErr
    /\ version = New(0, 0, 0, 0)
    /\ counts = NoDoc
    /\ doc = NoDoc
    /\ rd = InitReader
    /\ trace = <<>>
    /\ checks = <<>>
    /\ resetAt = 0 - 1

\* the step given, reading from the stream: the read error, or the new strings
StringsStep(k, reads, f2, rest) ==
    /\ fl.kind = "strings"
    /\ ~fl.done
    /\ fl.step = k
    /\ IF reads /\ k > fl.avail
       THEN fl' = [fl EXCEPT !.done = TRUE]
       ELSE fl' = [rest EXCEPT
                     !.step = k + 1, !.f = f2,
                     !.rewritten =
                        @ \/ \E n \in StringFields :
                                /\ fl.f[n].state = "Utf8"
                                /\ fl.f[n].by # "-"
                                /\ f2[n] # fl.f[n]]
    /\ UNCHANGED parseVars

\* Header::read: the strings read with read_pascal_string
StringsHeaderRead ==
    \E read \in {PsRead(fl.present)} :
       StringsStep(1, TRUE,
                   [fl.f EXCEPT !["header.app_name"] = read,
                                !["header.app_id"] = read],
                   fl)

\* Language::read of every language; the strings of the first are followed
StringsLanguages ==
    \E ls \in {[i \in 1..Len(fl.disk) |-> LanguageCodepage(fl.v, fl.disk[i])]} :
       StringsStep(2, Len(ls) > 0,
          IF Len(ls) = 0 THEN fl.f
          ELSE [fl.f EXCEPT
                  !["language.name"] =
                     decode(IF Ge(fl.v, <<4, 0, 0, 0>>) /\ fl.present
                            THEN PsBytes ELSE PsDefault, ls[1]),
                  !["language.license_text"] =
                     IF Ge(fl.v, <<4, 0, 1, 0>>) /\ fl.present
                     THEN PsBytes ELSE PsDefault],
          [fl EXCEPT !.languages = ls])

\* the codepage of the document
StringsCodepage ==
    \E codepage \in {ResolveCodepage(fl.v, fl.languages)} :
       StringsStep(3, FALSE, fl.f, [fl EXCEPT !.codepage = codepage])

\* header.decode(codepage)
StringsHeaderDecode ==
    \E codepage \in {fl.codepage} :
       StringsStep(4, FALSE,
                   [fl.f EXCEPT
                      !["header.app_name"] = decode(@, codepage),
                      !["header.app_id"] = decode(@, codepage)],
                   fl)

\* MessageEntry::read
StringsMessage ==
    \E has \in {"message" \in fl.has} :
    \E codepage \in {IF fl.language_index >= 0
                        /\ fl.language_index < Len(fl.languages)
                     THEN fl.languages[fl.language_index + 1]
                     ELSE fl.codepage} :
       StringsStep(5, has,
          IF has
          THEN [fl.f EXCEPT !["message.value"] = decode(PsRead(fl.present), codepage)]
          ELSE fl.f,
          fl)

\* Permission::read
StringsPermission ==
    \E has \in {"permission" \in fl.has} :
       StringsStep(6, has,
          IF has
          THEN [fl.f EXCEPT !["permission"] =
                               IF fl.present THEN PsBytes ELSE PsDefault]
          ELSE fl.f,
          fl)

\* Directory::read
StringsDirectory ==
    \E has \in {"directory" \in fl.has} :
       StringsStep(7, has,
          IF has /\ In(fl.v, <<4, 0, 11, 0>>, <<4, 1, 0, 0>>)
          THEN [fl.f EXCEPT !["directory.permissions"] = PsRead(fl.present)]
          ELSE fl.f,
          fl)

\* RegistryEntry::read, then Ok(Self { .. })
StringsRegistry ==
    \E has \in {"registry" \in fl.has} :
       StringsStep(8, has,
          IF has
          THEN [fl.f EXCEPT
                  !["registry.value"] = PsRead(fl.present),
                  !["registry.permissions"] =
                     IF In(fl.v, <<4, 0, 11, 0>>, <<4, 1, 0, 0>>)
                     THEN PsRead(fl.present) ELSE @]
          ELSE fl.f,
          [fl EXCEPT !.done = TRUE, !.ok = TRUE])

NextStrings ==
    \/ StringsHeaderRead
    \/ StringsLanguages
    \/ StringsCodepage
    \/ StringsHeaderDecode
    \/ StringsMessage
    \/ StringsPermission
    \/ StringsDirectory
    \/ StringsRegistry

SpecStrings == InitStrings /\ [][NextStrings]_vars

\* C22: after Ok no Pascal string of the document is still Bytes; each was
\* decoded once, with the codepage resolved for the document, and no decode
\* changed a string that was already Utf8.
C22_NoBytesLeft ==
    (fl.kind = "strings" /\ fl.done /\ fl.ok) =>
        /\ \A n \in StringFields :
              /\ fl.f[n].state # "Bytes"
              /\ fl.f[n].state = "Utf8" => fl.f[n].by \in {"-", fl.codepage}
        /\ ~fl.rewritten

\* C24: the codepage of the document is UTF-16LE at a Unicode version whatever
\* the languages are; at an ANSI version it is Windows-1252 if a language
\* read has Windows-1252, else the codepage of the first language, else
\* Windows-1252 when there is no language.
C24_EffectiveCodepage ==
    (fl.kind = "strings" /\ fl.step > 3) =>
        fl.codepage =
           IF fl.v.unicode THEN "UTF_16LE"
           ELSE IF \E i \in 1..Len(fl.languages) :
                      fl.languages[i] = "WINDOWS_1252"
           THEN "WINDOWS_1252"
           ELSE IF Len(fl.languages) > 0 THEN fl.languages[1]
           ELSE "WINDOWS_1252"

\* an ANSI document whose second language alone has Windows-1252
C24_Witness ==
    /\ fl.kind = "strings"
    /\ fl.step > 3
    /\ ~fl.v.unicode
    /\ Len(fl.languages) = 2
    /\ fl.languages[1] = "SHIFT_JIS"
    /\ fl.languages[2] = "WINDOWS_1252"
    /\ fl.codepage = "WINDOWS_1252"

(***************************************************************************)
(* The registry root of RegistryEntry::read (specification SpecRegRoot):   *)
(* the u32 read from the stream, as its two 16-bit halves, and the RegRoot *)
(* made from it.                                                           *)
(*   fl.word         the u32 on disk                                       *)
(*   fl.reg_root     the root, once fl.done                                *)
(***************************************************************************)
\* enum RegRoot, the variant of discriminant d being RegRoots[d + 1]
RegRoots ==
    <<"HKeyClassesRoot", "HKeyCurrentUser", "HKeyLocalMachine", "HKeyUsers",
      "HKeyPerformanceData", "HKeyCurrentConfig", "HKeyDynamicData", "Unset">>

\* RegRoot::default(), the variant marked #[default]
RegRootDefault == RegRoots[1]

\* word & !0x8000_0000
ClearHighBit(word) == <<word[1] % 32768, word[2]>>

\* try_transmute!(word & !0x8000_0000).unwrap_or_default()
reg_root_of(word) ==
    LET masked == ClearHighBit(word)
    IN IF masked[1] = 0 /\ masked[2] < Len(RegRoots) THEN RegRoots[masked[2] + 1]
       ELSE RegRootDefault

\* halves of the words tried
RootHighHalves == {0, 1, 32767, 32768, 32769, 65535}

RootLowHalves == (0..12) \cup {65535}

InitRegRoot ==
    /\ fl \in {[kind |-> "reg_root", word |-> <<h, l>>, reg_root |-> "-",
                done |-> FALSE] : h \in RootHighHalves, l \in RootLowHalves}
    /\ inp = <<>>
    /\ pc = "idle"
    /\ idx = 1
    /\ err = NoErr
    /\ loaderErr = NoErr
    /\ version = New(0, 0, 0, 0)
    /\ counts = NoDoc
    /\ doc = NoDoc
    /\ rd = InitReader
    /\ trace = <<>>
    /\ checks = <<>>
    /\ resetAt = 0 - 1

\* registry.reg_root = ..
RegRootDecode ==
    /\ fl.kind = "reg_root"
    /\ ~fl.done
    /\ fl' = [fl EXCEPT !.done = TRUE, !.reg_root = reg_root_of(fl.word)]
    /\ UNCHANGED parseVars

NextRegRoot == RegRootDecode

SpecRegRoot == InitRegRoot /\ [][NextRegRoot]_vars

\* C23: every u32 decodes to a root: the high bit is cleared, a value of the
\* known set gives its root (0x80000001 gives HKEY_CURRENT_USER), and any
\* other value gives Unset.
C23_RegRootTotal ==
    (fl.kind = "reg_root" /\ fl.done) =>
        LET high == fl.word[1] % 32768
            low == fl.word[2]
        IN /\ fl.reg_root \in {RegRoots[i] : i \in 1..Len(RegRoots)}
           /\ fl.reg_root =
                 CASE high = 0 /\ low = 0 -> "HKeyClassesRoot"
                   [] high = 0 /\ low = 1 -> "HKeyCurrentUser"
                   [] high = 0 /\ low = 2 -> "HKeyLocalMachine"
                   [] high = 0 /\ low = 3 -> "HKeyUsers"
                   [] high = 0 /\ low = 4 -> "HKeyPerformanceData"
                   [] high = 0 /\ low = 5 -> "HKeyCurrentConfig"
                   [] high = 0 /\ low = 6 -> "HKeyDynamicData"
                   [] OTHER -> "Unset"

(***************************************************************************)
(* Header::product_code (specification SpecProductCode).  A string is the  *)
(* sequence of its characters; an Option is [some, s].                     *)
(*   fl.app_id       what Header::app_id() returns                         *)
(*   fl.product_code the result, once fl.done                              *)
(***************************************************************************)
\* most characters of an AppId
MaxIdLen == 4

IdChars == {"{", "A", "}"}

AppIds ==
    {[some |-> FALSE, s |-> <<>>]}
    \cup {[some |-> TRUE, s |-> t] :
            t \in UNION {[1..n -> IdChars] : n \in 0..MaxIdLen}}

IS1_SUFFIX == <<"_", "i", "s", "1">>

\* str::starts_with("{{")
StartsWithBraces(t) == Len(t) >= 2 /\ t[1] = "{" /\ t[2] = "{"

\* a variant that keeps both braces
product_code_KeepBraces(app_id) ==
    IF ~app_id.some THEN [some |-> FALSE, s |-> <<>>]
    ELSE [some |-> TRUE, s |-> app_id.s \o IS1_SUFFIX]

\* Header::product_code
product_code(app_id) ==
    IF ~app_id.some THEN [some |-> FALSE, s |-> <<>>]
    ELSE LET code == IF StartsWithBraces(app_id.s)
                     THEN SubSeq(app_id.s, 2, Len(app_id.s))
                     ELSE app_id.s
         IN [some |-> TRUE, s |-> code \o IS1_SUFFIX]

InitProductCode ==
    /\ fl \in {[kind |-> "product_code", app_id |-> a,
                product_code |-> [some |-> FALSE, s |-> <<>>],
                done |-> FALSE] : a \in AppIds}
    /\ inp = <<>>
    /\ pc = "idle"
    /\ idx = 1
    /\ err = NoErr
    /\ loaderErr = NoErr
    /\ version = New(0, 0, 0, 0)
    /\ counts = NoDoc
    /\ doc = NoDoc
    /\ rd = InitReader
    /\ trace = <<>>
    /\ checks = <<>>
    /\ resetAt = 0 - 1

\* a call of header.product_code()
ProductCodeCall ==
    /\ fl.kind = "product_code"
    /\ ~fl.done
    /\ fl' = [fl EXCEPT !.done = TRUE, !.product_code = product_code(fl.app_id)]
    /\ UNCHANGED parseVars

NextProductCode == ProductCodeCall

SpecProductCode == InitProductCode /\ [][NextProductCode]_vars

\* C25: the product code is absent when app_id is; otherwise it is app_id,
\* without its first character when app_id begins with "{{", followed by
\* "_is1".
C25_ProductCode ==
    (fl.kind = "product_code" /\ fl.done) =>
        LET id == fl.app_id.s
            code == fl.product_code.s
            drop == IF Len(id) >= 2 /\ id[1] = "{" /\ id[2] = "{" THEN 1 ELSE 0
            kept == Len(id) - drop
        IN /\ fl.product_code.some = fl.app_id.some
           /\ fl.app_id.some =>
                 /\ Len(code) = kept + 4
                 /\ \A i \in 1..kept : code[i] = id[i + drop]
                 /\ code[kept + 1] = "_"
                 /\ code[kept + 2] = "i"
                 /\ code[kept + 3] = "s"
                 /\ code[kept + 4] = "1"

\* the product code of an AppId that begins with "{{"
C25_Witness ==
    /\ fl.kind = "product_code"
    /\ fl.done
    /\ fl.app_id.some
    /\ fl.app_id.s = <<"{", "{", "A", "}">>
    /\ fl.product_code.s = <<"{", "A", "}", "_", "i", "s", "1">>

\* C26: a well-formed installer, whatever its version and the compression of
\* its streams, never fails with UnexpectedExtraData: when the record parsers
\* have consumed the decoded content of a stream, the block reader's
\* total_in equals the declared size.
C26_WellFormedNeverExtraData ==
    WellFormed(inp) =>
        /\ err.kind # "UnexpectedExtraData"
        /\ \A i \in 1..Len(checks) : checks[i].passed

\* C27: a successful Header::read has set the compression from exactly one
\* source on disk, the compression byte or the flag BZIP_USED, at every
\* version; the field never stays at its default Unknown for want of a source.
C27_CompressionHasOneSource ==
    (fl.kind = "header_read" /\ fl.done /\ fl.ok) =>
        /\ ("compression" \in fl.explicit) # ("compression" \in fl.synth)
        /\ ("compression" \notin fl.explicit) =>
              fl.header.compression # HeaderDefault.compression

\* C28: in File::read BITS_32 and BITS_64 share the gate v >= 5.1.2: below
\* it neither takes a bit of the stream nor can be set, and the flag bytes
\* consumed are ceil(n / 8), three padded to four, n counting the flags whose
\* gate holds.
C28_Bits64Gated ==
    \A j \in 1..2 :
       (FlagsRead(j) /\ fl.kind = "file" /\ Lt(fl.v, <<5, 1, 2, 0>>)) =>
          LET en == EnabledFlags(GateList(fl.kind, fl.v))
              n == Cardinality({en[k] : k \in 1..Len(en)}
                               \ {"BITS_32", "BITS_64"})
              p == DivCeil(n, 8)
          IN /\ "BITS_32" \notin fl.r[j].flags
             /\ "BITS_64" \notin fl.r[j].flags
             /\ fl.r[j].off = IF p = 3 THEN 4 ELSE p

\* C29: InnoBlockReader keeps 0 <= pos <= length <= 4096 after every call to
\* read, failed ones included, and once a frame has failed its CRC check no
\* later read goes past it: every frame accepted lies before the failed one.
C29_BlockReaderBounds ==
    /\ 0 <= rd.pos
    /\ rd.pos <= rd.length
    /\ rd.length <= INNO_BLOCK_SIZE
    /\ \A fr \in inp.table :
          (rd.badCrc /\ ~fr.good /\ fr.start < rd.fpos) =>
             \A i \in 1..Len(rd.frames) : rd.frames[i][2][1] < fr.start

(***************************************************************************)
(* The block reader over a caller's reader that splits its data: a call of *)
(* read returns at most chunk bytes although more are available.  The CRC  *)
(* prefix is read with read_u32, which is read_exact and loops until it    *)
(* has four bytes; the payload is read with one call of read.  Two block   *)
(* readers run side by side over the same file, the first over a reader    *)
(* that always fills the buffer.  fl holds                                 *)
(*   f      the file: a stream of well-formed frames                       *)
(*   chunk  the most one read of the second caller's reader returns        *)
(*   r      the pair of block readers                                      *)
(*   res    what the last call of read returned on each                    *)
(*   calls  calls of read made so far                                      *)
(***************************************************************************)
MaxCalls == 3

\* InnoBlockReader::read_block over a reader returning at most chunk bytes
read_block_split(f, st, chunk) ==
    LET avail == TakeAvail(f, st)
    IN IF avail < 4
       THEN Ret([st EXCEPT !.fpos = @ + avail, !.limit = @ - avail],
                TRUE, 0, NoErr)
       ELSE LET p == st.fpos
                n == Min(chunk, Min(INNO_BLOCK_SIZE, avail - 4))
                actual == Crc32(p + 4, n)
                expected == StoredCrc(f, p)
                s1 == [st EXCEPT !.fpos = @ + 4 + n, !.limit = @ - (4 + n),
                                 !.total_in = @ + 4 + n, !.length = n]
            IN IF n = 0
               THEN Ret(s1, FALSE, 0, IoErr("UnexpectedEof"))
               ELSE IF actual # expected
               THEN Ret([s1 EXCEPT !.badCrc = TRUE], FALSE, 0,
                        IoCrcErr("Inno block", actual, expected))
               ELSE Ret([s1 EXCEPT !.pos = 0,
                                   !.frames = Append(@, <<expected, actual>>)],
                        TRUE, 1, NoErr)

\* the loop of <InnoBlockReader as Read>::read over such a reader
RECURSIVE ReadLoopSplit(_, _, _, _, _)
ReadLoopSplit(f, st, want, got, chunk) ==
    IF got >= want
    THEN Ret([st EXCEPT !.total_out = @ + got], TRUE, got, NoErr)
    ELSE With(IF st.pos = st.length THEN read_block_split(f, st, chunk)
              ELSE Ret(st, TRUE, 1, NoErr),
         LAMBDA rb :
            IF ~rb.ok THEN Ret(rb.st, FALSE, got, rb.e)
            ELSE IF rb.n = 0 THEN Ret(rb.st, TRUE, got, NoErr)
            ELSE With(Min(want - got, rb.st.length - rb.st.pos),
                 LAMBDA to_copy :
                    ReadLoopSplit(f, [rb.st EXCEPT !.pos = @ + to_copy],
                                  want, got + to_copy, chunk)))

\* payload lengths of the streams: one short frame, one full frame, a full
\* frame and a short one, two full frames and a short one
SplitPayloads ==
    {RecLen, INNO_BLOCK_SIZE, INNO_BLOCK_SIZE + RecLen,
     2 * INNO_BLOCK_SIZE + RecLen}

\* the most one read returns: a few bytes, all but one of a frame, a frame
SplitChunks == {RecLen, INNO_BLOCK_SIZE - 1, INNO_BLOCK_SIZE}

\* bytes asked of the block reader in one call
SplitWants == {1, RecLen, INNO_BLOCK_SIZE, INNO_BLOCK_SIZE + RecLen}

\* a stream of well-formed frames holding plen payload bytes
SplitFile(plen) ==
    LET frames == Framing(plen, 0)
    IN [len |-> plen + 4 * Len(frames),
        table |-> {[start |-> (i - 1) * (INNO_BLOCK_SIZE + 4),
                    len |-> frames[i].len, good |-> TRUE] :
                      i \in 1..Len(frames)}]

InitSplit ==
    /\ \E plen \in SplitPayloads, chunk \in SplitChunks :
          fl = [kind |-> "split", f |-> SplitFile(plen), chunk |-> chunk,
                r |-> [j \in 1..2 |->
                          [InitReader EXCEPT !.limit = plen + 4 * DivCeil(plen, INNO_BLOCK_SIZE)]],
                res |-> [j \in 1..2 |-> [ok |-> TRUE, n |-> 0, e |-> NoErr]],
                calls |-> 0]
    /\ inp = <<>>
    /\ pc = "idle"
    /\ idx = 1
    /\ err = NoErr
    /\ loaderErr = NoErr
    /\ version = New(0, 0, 0, 0)
    /\ counts = NoDoc
    /\ doc = NoDoc
    /\ rd = InitReader
    /\ trace = <<>>
    /\ checks = <<>>
    /\ resetAt = 0 - 1

\* one call of read with the same buffer on both block readers; a caller
\* stops at the first error
SplitRead ==
    /\ fl.kind = "split"
    /\ fl.calls < MaxCalls
    /\ \A j \in 1..2 : fl.res[j].ok
    /\ \E want \in SplitWants :
          \E a \in {ReadLoopSplit(fl.f, fl.r[1], want, 0, INNO_BLOCK_SIZE)},
             b \in {ReadLoopSplit(fl.f, fl.r[2], want, 0, fl.chunk)} :
             fl' = [fl EXCEPT !.r = <<a.st, b.st>>,
                              !.res = <<[ok |-> a.ok, n |-> a.n, e |-> a.e],
                                        [ok |-> b.ok, n |-> b.n, e |-> b.e]>>,
                              !.calls = @ + 1]
    /\ UNCHANGED parseVars

NextSplit == SplitRead

SpecSplit == InitSplit /\ [][NextSplit]_vars

\* C30: the result does not depend on how the caller's reader splits its
\* data: over a well-formed stream the block reader frames the data the same
\* way (every frame but the last holds 4096 payload bytes) and returns the
\* same result as over a reader that always fills the buffer.
C30_SplitIndependent ==
    fl.kind = "split" =>
        /\ fl.res[2] = fl.res[1]
        /\ fl.r[2].frames = fl.r[1].frames
        /\ \A i \in 1..(Len(fl.r[2].frames) - 1) :
              fl.r[2].frames[i][2][2] = INNO_BLOCK_SIZE

====
